---- MODULE Spec2Model ----
\* Glyph cache and retrieval pipeline of NovelComicReader (src/src/core/font.cpp):
\* the in-memory LRU cache, the per-glyph disk cache, the fast-cache snapshot
\* and the facade getCharacterBitmap, as a state machine over the fields of
\* class Font and the files on the SD card.
EXTENDS Integers, Sequences, FiniteSets, TLC

VARIABLES
    cacheMap,                 \* std::map<CacheKey, pair<CacheEntry, CacheIterator>>
    cacheLRUList,             \* std::list<CacheKey>, most recently used first
    currentCacheSizeInBytes,  \* size_t currentCacheSizeInBytes
    heap,                     \* malloc'ed buffers: pointer -> [alloc, bytes]
    fontBuffer,               \* uint8_t *fontBuffer (0 is nullptr)
    bufferSize,               \* uint16_t bufferSize
    currentSize,              \* uint16_t currentSize
    fontsReadFromSDCounter,   \* int fontsReadFromSDCounter
    sd,                       \* the files of the SD card this subsystem touches
    router,                   \* the fields of the Router singleton (router.h)
    sdCard,                   \* the fields of the SDCard singleton (sdcard.h)
    textViewer,               \* the scroll fields of the TextViewerPage
    last                      \* observation of the last call (history, not program state)

vars == <<cacheMap, cacheLRUList, currentCacheSizeInBytes, heap, fontBuffer,
          bufferSize, currentSize, fontsReadFromSDCounter, sd, router, sdCard,
          textViewer, last>>

-----------------------------------------------------------------------------
\* Bounds of the model.

\* FONT_CACHE_MAX_SIZE_BYTES is 25 * 1024 in the source (font.cpp:15); the
\* model runs the same code with a budget of two 16-pixel glyphs.
MaxCacheBytes == 64
\* Number of addresses malloc can hand out.
MaxPtr == 5
\* Records a StaticJsonDocument<16384> holds, scaled with the budget: the real
\* document holds about 195 records (16 bytes per slot, 5 slots and the copied
\* character per record) while the real budget holds 800 glyphs of 32 bytes.
JsonDocCapacity == 1
\* SAVE_CACHE_INTERVAL is 10 in the source (font.h:28); the model saves after
\* every third cold load.
SAVE_CACHE_INTERVAL == 3
\* Number of entries of a /font_data directory in the properties of
\* findIndexFile.
MaxDirLen == 3

\* Program constants.
UINT16_MOD == 65536

-----------------------------------------------------------------------------
\* Then(v, K): the value of K at v, with v computed once.  The operations
\* below are written as functions from a state record S to the state they
\* leave; Then names each intermediate state.
Then(v, K(_)) == CHOOSE r \in {K(x) : x \in {v}} : TRUE

\* Characters (non-ASCII UTF-8 characters; Code orders them as std::string
\* compares their bytes: U+2610 starts with 0xE2, CJK ideographs with 0xE4..0xE9).
PLACEHOLDER == "box"
Chars == {"ca", "cb", "cc"}

Code(c) == CASE c = "box" -> 0 [] c = "ca" -> 1 [] c = "cb" -> 2 [] c = "cc" -> 3
             [] OTHER -> 4

\* std::pair<std::string, uint16_t>::operator<
KeyLess(k1, k2) ==
    \/ Code(k1[1]) < Code(k2[1])
    \/ Code(k1[1]) = Code(k2[1]) /\ k1[2] < k2[2]

RECURSIVE SortedKeys(_)
\* the keys of a std::map in iteration order
SortedKeys(ks) ==
    IF ks = {} THEN <<>>
    ELSE LET m == CHOOSE k \in ks : \A o \in ks \ {k} : KeyLess(k, o)
         IN  <<m>> \o SortedKeys(ks \ {m})

Min(a, b) == IF a < b THEN a ELSE b

\* bytes [from+1 .. from+n] of a byte sequence (n clipped to what is there)
Slice(bytes, from, n) ==
    IF from >= Len(bytes) THEN <<>>
    ELSE SubSeq(bytes, from + 1, Min(Len(bytes), from + n))

-----------------------------------------------------------------------------
\* The heap: malloc / free / memcpy.

FreeBuf == [alloc |-> FALSE, bytes |-> <<>>]

\* an injected fault f took effect during the call
Mark(S, f) == [S EXCEPT !.tr.faults = @ \cup {f}]

FreePtrs(S) == {p \in 1..MaxPtr : ~S.heap[p].alloc}

\* malloc(n): 0 (nullptr) when the allocation fails, else a free address.
MallocPtr(S, fail) ==
    IF fail \/ FreePtrs(S) = {} THEN 0
    ELSE CHOOSE p \in FreePtrs(S) : \A q \in FreePtrs(S) : p <= q

\* the buffer at p after malloc and after `bytes` were stored into it
Store(S, p, bytes) == [S EXCEPT !.heap[p] = [alloc |-> TRUE, bytes |-> bytes]]

-----------------------------------------------------------------------------
\* In-memory LRU cache.  cacheLRUList is a sequence of list nodes
\* [node, key]; a map slot holds the entry and the node its iterator refers to.

NodeIds(S) == {S.cacheLRUList[i].node : i \in 1..Len(S.cacheLRUList)}

NewNode(S) == CHOOSE n \in 1..(Len(S.cacheLRUList) + 1) : n \notin NodeIds(S)

\* cacheLRUList.splice(begin(), cacheLRUList, it): the node moves to the front
Splice_NoMove(list, it) == list

Splice(list, it) ==
    LET at == {i \in 1..Len(list) : list[i].node = it}
    IN  IF at = {} THEN list
        ELSE LET i == CHOOSE j \in at : TRUE
             IN  <<list[i]>> \o SubSeq(list, 1, i - 1) \o SubSeq(list, i + 1, Len(list))

\* Font::clearMemoryCache
ClearMemoryCache(S) ==
    LET ptrs == {S.cacheMap[k].bitmap : k \in DOMAIN S.cacheMap}
    IN  [S EXCEPT !.heap = [p \in 1..MaxPtr |-> IF p \in ptrs THEN FreeBuf ELSE @[p]],
                  !.cacheMap = <<>>,
                  !.cacheLRUList = <<>>,
                  !.currentCacheSizeInBytes = 0,
                  !.tr.freed = @ \cup ptrs,
                  !.tr.doubleFree = @ \/ \E p \in ptrs : ~S.heap[p].alloc,
                  !.tr.mutated = TRUE]

\* Font::cacheGet: [S, hit]
CacheGet(S, key) ==
    IF key \notin DOMAIN S.cacheMap THEN [S |-> S, hit |-> FALSE]
    ELSE [S |-> [S EXCEPT !.cacheLRUList = Splice(@, S.cacheMap[key].it)],
          hit |-> TRUE]

\* the guard of the loop of Font::cacheEvict
EvictWanted(S) ==
    S.currentCacheSizeInBytes > MaxCacheBytes /\ S.cacheLRUList # <<>>

\* one round of the loop of Font::cacheEvict
EvictStep(S) ==
    LET lruKey == S.cacheLRUList[Len(S.cacheLRUList)].key
        e == S.cacheMap[lruKey]
    IN  IF lruKey \in DOMAIN S.cacheMap
        THEN [S EXCEPT !.heap[e.bitmap] = FreeBuf,
                       !.tr.freed = @ \cup {e.bitmap},
                       !.tr.doubleFree = @ \/ ~S.heap[e.bitmap].alloc,
                       !.currentCacheSizeInBytes = @ - e.dataSize,
                       !.cacheMap = [k \in DOMAIN @ \ {lruKey} |-> @[k]],
                       !.cacheLRUList = SubSeq(@, 1, Len(@) - 1),
                       !.tr.mutated = TRUE,
                       !.tr.evicted = Append(@, lruKey)]
        ELSE [S EXCEPT !.cacheLRUList = SubSeq(@, 1, Len(@) - 1),
                       !.tr.mutated = TRUE,
                       !.tr.evicted = Append(@, lruKey)]

RECURSIVE CacheEvict(_)
\* Font::cacheEvict
CacheEvict(S) ==
    IF EvictWanted(S) THEN Then(EvictStep(S), LAMBDA S1 : CacheEvict(S1)) ELSE S

\* the duplicate test of Font::cachePut
PutKeyPresent_Off(S, key) == FALSE

PutKeyPresent(S, key) == key \in DOMAIN S.cacheMap

\* the budget test of Font::cachePut
PutOverBudget_Off(S, dataSize) == FALSE

PutOverBudget(S, dataSize) == S.currentCacheSizeInBytes + dataSize > MaxCacheBytes

\* the insertion at the end of Font::cachePut: the copy at p goes in front
PutInsert_NoCount(S, key, p, data, charSize, dataSize) ==
    LET node == NewNode(S)
        slot == [bitmap |-> p, size |-> charSize, dataSize |-> dataSize, it |-> node]
    IN  [S EXCEPT !.heap[p] = [alloc |-> TRUE, bytes |-> SubSeq(data, 1, dataSize)],
                  !.cacheLRUList = <<[node |-> node, key |-> key]>> \o @,
                  !.cacheMap = [k \in DOMAIN @ \cup {key} |->
                                    IF k = key THEN slot ELSE @[k]],
                  !.tr.mutated = TRUE]

PutInsert(S, key, p, data, charSize, dataSize) ==
    LET node == NewNode(S)
        slot == [bitmap |-> p, size |-> charSize, dataSize |-> dataSize, it |-> node]
    IN  [S EXCEPT !.heap[p] = [alloc |-> TRUE, bytes |-> SubSeq(data, 1, dataSize)],
                  !.cacheLRUList = <<[node |-> node, key |-> key]>> \o @,
                  !.cacheMap = [k \in DOMAIN @ \cup {key} |->
                                    IF k = key THEN slot ELSE @[k]],
                  !.currentCacheSizeInBytes = @ + dataSize,
                  !.tr.mutated = TRUE]

\* the return of Font::cachePut when malloc returned nullptr
PutAllocFailed_KeyListed(S, key) ==
    [S EXCEPT !.cacheLRUList = <<[node |-> NewNode(S), key |-> key]>> \o @,
              !.tr.faults = @ \cup {"mallocPut"}]

PutAllocFailed(S, key) == Mark(S, "mallocPut")

\* Font::cachePut; allocFail: the malloc of the copy fails
CachePut(S, key, data, charSize, dataSize, allocFail) ==
    IF PutKeyPresent(S, key) THEN S
    ELSE Then(IF PutOverBudget(S, dataSize) THEN CacheEvict(S) ELSE S, LAMBDA S1 :
         IF PutOverBudget(S, dataSize) /\ PutOverBudget(S1, dataSize) THEN S1
         ELSE Then(MallocPtr(S1, allocFail), LAMBDA p :
              IF p = 0 THEN PutAllocFailed(S1, key)
              ELSE PutInsert(S1, key, p, data, charSize, dataSize)))

-----------------------------------------------------------------------------
\* Cold storage (read-only): the index documents of /font_data in directory
\* order and the glyph blob they refer to.

\* Blob "f1.bin": ca/16 at 0, cb/16 at 32, box/16 at 64, ca/32 at 96 and
\* cb/12 (rows of 2 bytes, 24 bytes) at 128.
FontBlob == [i \in 1..224 |-> (i * 7) % 251]

Blobs == [name \in {"f1.bin"} |-> FontBlob]

\* index_0 does not parse; index_1 declares ca (16, 32), cb (16) and the
\* placeholder (16), and cb at 12 pixels.  cc is declared nowhere.
IndexDocs ==
    << [name |-> "index_0", ok |-> FALSE, map |-> <<>>],
       [name |-> "index_1", ok |-> TRUE,
        map |-> ( <<"ca", 16>>  :> [file |-> "f1.bin", offset |-> 0]
               @@ <<"cb", 16>>  :> [file |-> "f1.bin", offset |-> 32]
               @@ <<"box", 16>> :> [file |-> "f1.bin", offset |-> 64]
               @@ <<"ca", 32>>  :> [file |-> "f1.bin", offset |-> 96]
               @@ <<"cb", 12>>  :> [file |-> "f1.bin", offset |-> 128] )] >>

\* doc.containsKey(character)
DocHasChar(doc, character) == \E k \in DOMAIN doc.map : k[1] = character

\* doc.containsKey(character) && doc[character].containsKey(String(size))
DocHasGlyph(doc, character, size) == <<character, size>> \in DOMAIN doc.map

\* String(file.name()).startsWith("index_") for the names of the model
IsIndexName(name) == name \in {"index_0", "index_1", "index_2"}

\* the test of the loop of Font::findIndexFile on one directory entry
IndexFileMatches(f, character) ==
    IsIndexName(f.name) /\ f.ok /\ DocHasChar(f, character)

\* the loop of Font::findIndexFile over the entries of a directory, in the
\* order openNextFile yields them: the position of the first entry that
\* matches, 0 when none does
FindIndexIn_StopsAtMalformed(dir, character) ==
    LET found == {i \in 1..Len(dir) :
                      /\ IndexFileMatches(dir[i], character)
                      /\ \A j \in 1..(i - 1) : IsIndexName(dir[j].name) => dir[j].ok}
    IN  IF found = {} THEN 0 ELSE CHOOSE i \in found : \A j \in found : i <= j

FindIndexIn(dir, character) ==
    LET found == {i \in 1..Len(dir) : IndexFileMatches(dir[i], character)}
    IN  IF found = {} THEN 0 ELSE CHOOSE i \in found : \A j \in found : i <= j

\* Font::findIndexFile: the position of the first document that parses and
\* declares the character, 0 when there is none
FindIndexFile(character) == FindIndexIn(IndexDocs, character)

\* bufferSize = (size * size + 7) / 8, stored in a uint16_t
BufLen(size) == ((size * size + 7) \div 8) % UINT16_MOD

-----------------------------------------------------------------------------
\* Files on the SD card that the subsystem writes.

NoFile == [exists |-> FALSE, bytes |-> <<>>]
NoJson == [exists |-> FALSE, ok |-> FALSE, recs |-> <<>>]
\* fast.json just opened with FILE_WRITE: it exists and is empty
EmptyJson == [exists |-> TRUE, ok |-> FALSE, recs |-> <<>>]

GlyphKeys == (Chars \cup {PLACEHOLDER}) \X {12, 16, 32}

-----------------------------------------------------------------------------
\* Font::clearBuffer
ClearBuffer(S) ==
    IF S.fontBuffer # 0
    THEN [S EXCEPT !.heap[S.fontBuffer] = FreeBuf,
                   !.tr.freed = @ \cup {S.fontBuffer},
                   !.tr.doubleFree = @ \/ ~S.heap[S.fontBuffer].alloc,
                   !.fontBuffer = 0]
    ELSE S

\* Font::loadCharacter after read() returned fewer bytes than bufferSize into
\* the buffer at p: clearBuffer() releases the buffer
ShortReadReturn_KeepsBuffer(S, p, got) ==
    [S EXCEPT !.fontBuffer = p, !.heap[p] = [alloc |-> TRUE, bytes |-> got]]

ShortReadReturn(S, p, got) ==
    Then([S EXCEPT !.fontBuffer = p, !.heap[p] = [alloc |-> TRUE, bytes |-> got]],
         LAMBDA S1 : ClearBuffer(S1))

\* Font::loadCharacter, lines 477-501: the per-glyph disk cache.
\* [S, done, ok]: done when loadCharacter returns from this part.
LoadFromGlyphCache_Skipped(S, character, size, F) ==
    [S |-> S, done |-> FALSE, ok |-> FALSE]

LoadFromGlyphCache(S, character, size, F) ==
    LET f == S.sd.glyph[<<character, size>>]
        n == BufLen(size)
        p == MallocPtr(S, "mallocCold" \in F)
        got == IF "glyphRead" \in F THEN <<>> ELSE Slice(f.bytes, 0, n)
    IN  IF ~f.exists THEN [S |-> S, done |-> FALSE, ok |-> FALSE]
        ELSE IF p = 0
             THEN [S |-> [S EXCEPT !.bufferSize = n, !.tr.faults = @ \cup {"mallocCold"}],
                   done |-> TRUE, ok |-> FALSE]
        ELSE IF Len(got) = n
             THEN [S |-> [S EXCEPT !.bufferSize = n, !.fontBuffer = p,
                                   !.currentSize = size,
                                   !.heap[p] = [alloc |-> TRUE, bytes |-> got]],
                   done |-> TRUE, ok |-> TRUE]
        ELSE [S |-> Then([S EXCEPT !.bufferSize = n,
                                   !.tr.faults = @ \cup ({"glyphRead"} \cap F)],
                         LAMBDA S1 : ShortReadReturn(S1, p, got)),
              done |-> FALSE, ok |-> FALSE]

\* Font::loadCharacter, lines 505-555: the index lookup with the placeholder
\* substitutions.  [ok, character, doc, calls]: calls counts findIndexFile.
ResolveIndex(character, size) ==
    LET i1 == FindIndexFile(character)
        ch1 == IF i1 = 0 THEN PLACEHOLDER ELSE character
        i2 == IF i1 = 0 THEN FindIndexFile(PLACEHOLDER) ELSE i1
        n2 == IF i1 = 0 THEN 2 ELSE 1
        i3 == FindIndexFile(PLACEHOLDER)
    IN  IF i2 = 0 THEN [ok |-> FALSE, character |-> ch1, doc |-> 0, calls |-> n2]
        ELSE IF DocHasGlyph(IndexDocs[i2], ch1, size)
             THEN [ok |-> TRUE, character |-> ch1, doc |-> i2, calls |-> n2]
        ELSE IF i3 # 0 /\ DocHasGlyph(IndexDocs[i3], PLACEHOLDER, size)
             THEN [ok |-> TRUE, character |-> PLACEHOLDER, doc |-> i3, calls |-> n2 + 1]
        ELSE [ok |-> FALSE, character |-> PLACEHOLDER, doc |-> i3, calls |-> n2 + 1]

\* Font::loadCharacter, lines 585-602: the best-effort write of the per-glyph
\* file, named by the character and size of the request
WriteGlyphCache_UnderResolved(S, character, size, F) ==
    LET name == IF FindIndexFile(character) = 0 THEN PLACEHOLDER ELSE character
    IN  [S EXCEPT !.sd.cacheDir = TRUE,
                  !.sd.glyph[<<name, size>>] =
                      [exists |-> TRUE,
                       bytes |-> SubSeq(S.heap[S.fontBuffer].bytes, 1, S.bufferSize)]]

WriteGlyphCache(S, character, size, F) ==
    IF "glyphWriteOpen" \in F
    THEN [S EXCEPT !.sd.cacheDir = TRUE, !.tr.faults = @ \cup {"glyphWriteOpen"}]
    ELSE LET n == IF "glyphWriteShort" \in F THEN S.bufferSize \div 2 ELSE S.bufferSize
         IN  [S EXCEPT !.sd.cacheDir = TRUE,
                       !.sd.glyph[<<character, size>>] =
                           [exists |-> TRUE,
                            bytes |-> SubSeq(S.heap[S.fontBuffer].bytes, 1, n)],
                       !.tr.faults = @ \cup ({"glyphWriteShort"} \cap F)]

\* Font::loadCharacter, lines 557-583: read the glyph from the blob the index names
LoadFromIndex(S, character, size, F) ==
    LET r == ResolveIndex(character, size)
        e == IndexDocs[r.doc].map[<<r.character, size>>]
        n == BufLen(size)
        p == MallocPtr(S, "mallocCold" \in F)
        got == IF "fontRead" \in F THEN <<>> ELSE Slice(Blobs[e.file], e.offset, n)
    IN  IF ~r.ok THEN [S |-> [S EXCEPT !.tr.locator = @ + r.calls], ok |-> FALSE]
        ELSE IF e.file \notin DOMAIN Blobs \/ "fontOpen" \in F
             THEN [S |-> [S EXCEPT !.tr.locator = @ + r.calls,
                                   !.tr.faults = @ \cup ({"fontOpen"} \cap F)],
                   ok |-> FALSE]
        ELSE IF p = 0
             THEN [S |-> [S EXCEPT !.tr.locator = @ + r.calls, !.bufferSize = n,
                                   !.tr.faults = @ \cup {"mallocCold"}],
                   ok |-> FALSE]
        ELSE IF Len(got) # n
             THEN [S |-> Then([S EXCEPT !.tr.locator = @ + r.calls, !.bufferSize = n,
                                        !.tr.faults = @ \cup ({"fontRead"} \cap F)],
                              LAMBDA S1 : ShortReadReturn(S1, p, got)),
                   ok |-> FALSE]
        ELSE [S |-> Then([S EXCEPT !.tr.locator = @ + r.calls, !.bufferSize = n,
                                   !.fontBuffer = p, !.currentSize = size,
                                   !.heap[p] = [alloc |-> TRUE, bytes |-> got]],
                         LAMBDA S1 : WriteGlyphCache(S1, character, size, F)),
              ok |-> TRUE]

\* Font::loadCharacter: [S, ok]
LoadCharacter(S, character, size, F) ==
    Then(ClearBuffer(S), LAMBDA S0 :
    Then([S0 EXCEPT !.tr.coldReads = @ + 1], LAMBDA S1 :
    Then(LoadFromGlyphCache(S1, character, size, F), LAMBDA c :
         IF c.done THEN [S |-> c.S, ok |-> c.ok]
         ELSE Then(c.S, LAMBDA S2 : LoadFromIndex(S2, character, size, F)))))

-----------------------------------------------------------------------------
\* Fast-cache snapshot: /font_data/fast.font (blob) and /font_data/fast.json
\* (metadata: a sequence of records [char, size, offset, dataSize]).

RECURSIVE SaveBlob(_, _)
\* the bytes the loop of saveFastFontCache writes to fast.font, in map order
SaveBlob(S, keys) ==
    IF keys = <<>> THEN <<>>
    ELSE S.heap[S.cacheMap[Head(keys)].bitmap].bytes \o SaveBlob(S, Tail(keys))

RECURSIVE SaveRecords(_, _, _)
\* the records the loop adds to the JSON document, in map order
SaveRecords(S, keys, currentOffset) ==
    IF keys = <<>> THEN <<>>
    ELSE LET k == Head(keys)
             e == S.cacheMap[k]
         IN  <<[char |-> k[1], size |-> k[2], offset |-> currentOffset,
                dataSize |-> e.dataSize]>>
             \o SaveRecords(S, Tail(keys), currentOffset + e.dataSize)

\* a StaticJsonDocument keeps what fits and drops the records added after
DocFit(recs) == SubSeq(recs, 1, Min(Len(recs), JsonDocCapacity))

\* the return of Font::saveFastFontCache
SaveDone(S, ok) == [S |-> [S EXCEPT !.tr.saves = Append(@, ok)], ok |-> ok]

\* Font::saveFastFontCache: [S, ok]
SaveFastFontCache(S, F) ==
    Then(SortedKeys(DOMAIN S.cacheMap), LAMBDA keys :
    IF "saveOpenJson" \in F
    THEN SaveDone([S EXCEPT !.tr.faults = @ \cup {"saveOpenJson"}], FALSE)
    ELSE IF "saveOpenBin" \in F
    THEN SaveDone([S EXCEPT !.sd.fastJson = EmptyJson,
                            !.tr.faults = @ \cup {"saveOpenBin"}], FALSE)
    ELSE IF "saveWriteBin" \in F /\ keys # <<>>
    THEN SaveDone([S EXCEPT !.sd.fastBin = NoFile, !.sd.fastJson = NoJson,
                            !.tr.removed = {"fast.font", "fast.json"},
                            !.tr.faults = @ \cup {"saveWriteBin"}], FALSE)
    ELSE IF "saveWriteJson" \in F
    THEN SaveDone([S EXCEPT !.sd.fastBin = NoFile, !.sd.fastJson = NoJson,
                            !.tr.removed = {"fast.font", "fast.json"},
                            !.tr.faults = @ \cup {"saveWriteJson"}], FALSE)
    \* serializeJson wrote a part of the document: its count is not 0
    ELSE IF "saveWriteJsonShort" \in F
    THEN SaveDone([S EXCEPT !.sd.fastBin = [exists |-> TRUE, bytes |-> SaveBlob(S, keys)],
                            !.sd.fastJson = EmptyJson,
                            !.tr.faults = @ \cup {"saveWriteJsonShort"}], TRUE)
    ELSE SaveDone([S EXCEPT !.sd.fastBin = [exists |-> TRUE, bytes |-> SaveBlob(S, keys)],
                            !.sd.fastJson = [exists |-> TRUE, ok |-> TRUE,
                                             recs |-> DocFit(SaveRecords(S, keys, 0))]],
                  TRUE))

-----------------------------------------------------------------------------
\* Glyph service facade.

\* the snapshot trigger of Font::getCharacterBitmap
SaveTrigger_KeepOnFailure(S, F) ==
    IF S.fontsReadFromSDCounter + 1 >= SAVE_CACHE_INTERVAL
    THEN Then([S EXCEPT !.fontsReadFromSDCounter = @ + 1], LAMBDA S1 :
         Then(SaveFastFontCache(S1, F), LAMBDA r :
              IF r.ok THEN [r.S EXCEPT !.fontsReadFromSDCounter = 0] ELSE r.S))
    ELSE [S EXCEPT !.fontsReadFromSDCounter = @ + 1]

SaveTrigger(S, F) ==
    IF S.fontsReadFromSDCounter + 1 >= SAVE_CACHE_INTERVAL
    THEN Then([S EXCEPT !.fontsReadFromSDCounter = @ + 1], LAMBDA S1 :
         Then(SaveFastFontCache(S1, F), LAMBDA r :
              [r.S EXCEPT !.fontsReadFromSDCounter = 0]))
    ELSE [S EXCEPT !.fontsReadFromSDCounter = @ + 1]

\* the hit path of Font::getCharacterBitmap: the cached bitmap is returned
HitReturn_Freed(S, key) ==
    [S |-> [S EXCEPT !.heap[S.cacheMap[key].bitmap] = FreeBuf,
                     !.tr.freed = @ \cup {S.cacheMap[key].bitmap}],
     ret |-> S.cacheMap[key].bitmap, hit |-> TRUE]

HitReturn_ClearsBuffer(S, key) ==
    [S |-> ClearBuffer(S), ret |-> S.cacheMap[key].bitmap, hit |-> TRUE]

HitReturn(S, key) == [S |-> S, ret |-> S.cacheMap[key].bitmap, hit |-> TRUE]

\* the return of Font::getCharacterBitmap after the cold load failed
ColdFailReturn_Counts(S) ==
    [S |-> [S EXCEPT !.fontsReadFromSDCounter = (@ + 1) % SAVE_CACHE_INTERVAL],
     ret |-> 0, hit |-> FALSE]

ColdFailReturn(S) == [S |-> S, ret |-> 0, hit |-> FALSE]

\* the miss path of Font::getCharacterBitmap after the cold load succeeded
MissReturn(S, key, F) ==
    Then(SaveTrigger(S, F), LAMBDA S2 :
    Then(IF S2.fontBuffer # 0 /\ S2.bufferSize > 0
         THEN CachePut(S2, key, S2.heap[S2.fontBuffer].bytes, key[2],
                       S2.bufferSize, "mallocPut" \in F)
         ELSE S2, LAMBDA S3 :
    [S |-> S3, ret |-> S3.fontBuffer, hit |-> FALSE]))

\* Font::getCharacterBitmap: [S, ret, hit]
GetCharacterBitmap(S, character, size, F) ==
    Then(CacheGet(S, <<character, size>>), LAMBDA g :
    IF g.hit THEN Then(g.S, LAMBDA S1 : HitReturn(S1, <<character, size>>))
    ELSE Then(LoadCharacter(S, character, size, F), LAMBDA l :
         IF ~l.ok THEN Then(l.S, LAMBDA S1 : ColdFailReturn(S1))
         ELSE Then(l.S, LAMBDA S1 : MissReturn(S1, <<character, size>>, F))))

\* Display::drawCharacter with useCustomFont on a non-ASCII character: the
\* glyph of size * 16 pixels is requested; drawing changes no Font state.
DrawCharacter(S, character, size, F) ==
    Then(GetCharacterBitmap(S, character, size * 16, F), LAMBDA r : r.S)

-----------------------------------------------------------------------------
\* Font::loadFastFontCache.

\* the admission test of the load loop
LoadOverBudget_Off(S, dataSize) == FALSE

LoadOverBudget(S, dataSize) == S.currentCacheSizeInBytes + dataSize > MaxCacheBytes

\* the duplicate test of the load loop
LoadKeyPresent_Off(S, key) == FALSE

LoadKeyPresent(S, key) == key \in DOMAIN S.cacheMap

\* the manual insertion of the load loop: the bytes read are at p
LoadInsert(S, key, p, got, size, dataSize) ==
    LET node == NewNode(S)
        slot == [bitmap |-> p, size |-> size, dataSize |-> dataSize, it |-> node]
    IN  [S EXCEPT !.heap[p] = [alloc |-> TRUE, bytes |-> got],
                  !.cacheLRUList = <<[node |-> node, key |-> key]>> \o @,
                  !.cacheMap = [k \in DOMAIN @ \cup {key} |->
                                    IF k = key THEN slot ELSE @[k]],
                  !.currentCacheSizeInBytes = @ + dataSize,
                  !.tr.mutated = TRUE,
                  !.tr.loaded = Append(@, key)]

\* the display update of the load loop; the glyph is drawn with multiplier
\* 2 when size > 16 and 1 otherwise
LoadDisplayUpdate(S, character, size, F) ==
    DrawCharacter(S, character, IF size > 16 THEN 2 ELSE 1, F)

\* a record of the load loop that is not admitted: the loop continues
LoadSkip_Leaks(S, key, p, f) ==
    IF p = 0 THEN [S EXCEPT !.tr.skipped = Append(@, key), !.tr.faults = @ \cup f]
    ELSE [S EXCEPT !.heap[p] = [alloc |-> TRUE, bytes |-> <<>>],
                   !.tr.skipped = Append(@, key), !.tr.faults = @ \cup f]

\* p: the buffer malloc returned for the record, 0 when malloc failed; a
\* buffer whose seek or read failed is freed
LoadSkip(S, key, p, f) ==
    IF p = 0 THEN [S EXCEPT !.tr.skipped = Append(@, key), !.tr.faults = @ \cup f]
    ELSE [S EXCEPT !.heap[p] = FreeBuf, !.tr.freed = @ \cup {p},
                   !.tr.skipped = Append(@, key), !.tr.faults = @ \cup f]

RECURSIVE LoadLoop(_, _, _, _, _)
\* the loop over the metadata records, from record i on; bin: the bytes the
\* open handle of fast.font reads; o: [F, at, upd, stale]
LoadLoop(S, recs, i, bin, o) ==
    IF i > Len(recs) THEN S
    ELSE
    LET r == recs[i]
        key == <<r.char, r.size>>
        p == MallocPtr(S, "mallocLoad" \in o.F /\ i = o.at)
        got == IF "loadRead" \in o.F /\ i = o.at THEN <<>>
               ELSE Slice(bin, r.offset, r.dataSize)
        f == IF p = 0 THEN {"mallocLoad"}
             ELSE IF i = o.at THEN {"loadRead"} \cap o.F ELSE {}
    IN  IF r.size = 0 \/ r.dataSize = 0 THEN LoadLoop(S, recs, i + 1, bin, o)
        ELSE IF LoadKeyPresent(S, key) THEN LoadLoop(S, recs, i + 1, bin, o)
        ELSE IF LoadOverBudget(S, r.dataSize) THEN [S EXCEPT !.tr.stopped = i]
        ELSE IF p = 0 \/ r.offset > Len(bin) \/ Len(got) # r.dataSize
             THEN Then(LoadSkip(S, key, p, f), LAMBDA S1 : LoadLoop(S1, recs, i + 1, bin, o))
        ELSE Then(LoadInsert(S, key, p, got, r.size, r.dataSize), LAMBDA S1 :
             Then(IF i \in o.upd THEN LoadDisplayUpdate(S1, r.char, r.size, o.F)
                  ELSE S1, LAMBDA S2 :
             \* a save started by the display update rewrites the files
             \* under the open handle
             Then(IF Len(S2.tr.saves) > Len(S1.tr.saves) /\ ~o.stale
                  THEN S2.sd.fastBin.bytes ELSE bin, LAMBDA bin2 :
             LoadLoop(S2, recs, i + 1, bin2, o))))

\* the existence test of Font::loadFastFontCache
LoadFilesAbsent_BothOnly(S) == ~S.sd.fastJson.exists /\ ~S.sd.fastBin.exists

LoadFilesAbsent(S) == ~S.sd.fastJson.exists \/ ~S.sd.fastBin.exists

\* the parse-error return of Font::loadFastFontCache: both files are removed
LoadParseFailed_CacheCleared(S) ==
    Then(ClearMemoryCache(S), LAMBDA S1 :
         [S1 EXCEPT !.sd.fastBin = NoFile, !.sd.fastJson = NoJson,
                    !.tr.removed = {"fast.font", "fast.json"}])

LoadParseFailed(S) ==
    [S EXCEPT !.sd.fastBin = NoFile, !.sd.fastJson = NoJson,
              !.tr.removed = {"fast.font", "fast.json"}]

\* Font::loadFastFontCache: [S, ok]
LoadFastFontCache(S, o) ==
    IF LoadFilesAbsent(S) THEN [S |-> S, ok |-> FALSE]
    ELSE IF "loadOpenJson" \in o.F
         THEN [S |-> [S EXCEPT !.tr.faults = @ \cup {"loadOpenJson"}], ok |-> FALSE]
    ELSE IF ~S.sd.fastJson.ok
         THEN [S |-> LoadParseFailed(S), ok |-> FALSE]
    ELSE IF "loadOpenBin" \in o.F
         THEN [S |-> [S EXCEPT !.sd.fastJson = NoJson,
                               !.tr.removed = {"fast.json"},
                               !.tr.faults = @ \cup {"loadOpenBin"}],
               ok |-> FALSE]
    ELSE Then(ClearMemoryCache(S), LAMBDA S1 :
         Then(LoadLoop(S1, S.sd.fastJson.recs, 1, S.sd.fastBin.bytes, o), LAMBDA S2 :
              [S |-> S2, ok |-> TRUE]))

-----------------------------------------------------------------------------
\* Router (src/src/core/router.cpp): the registered routes, the current page
\* and the navigation history.  A router state R is a record of its fields;
\* currentPage is 0 (nullptr) or 1 (a page object), params are pointers with
\* 0 for nullptr, deleted holds the params goBack has deleted.  events lists
\* what the call in progress did to page objects ("cleanup", "delete").

\* Router() = default
RouterInit ==
    [routes |-> {}, history |-> <<>>, currentPage |-> 0, currentPageName |-> "",
     currentPageParams |-> 0, deleted |-> {}, events |-> <<>>]

\* Router::registerPage
RegisterPage(R, name) == [R EXCEPT !.routes = @ \cup {name}]

\* the push of Router::navigateTo: the page that is left goes on the history
NavigatePush_NewPage(R, name, params) ==
    IF R.currentPage # 0
    THEN [R EXCEPT !.history = Append(@, [name |-> name, params |-> params])]
    ELSE R

NavigatePush(R, name, params) ==
    IF R.currentPage # 0
    THEN [R EXCEPT !.history = Append(@, [name |-> R.currentPageName,
                                          params |-> R.currentPageParams])]
    ELSE R

\* Router::navigateTo
NavigateTo(R, name, params) ==
    IF name \notin R.routes THEN R
    ELSE Then(NavigatePush(R, name, params), LAMBDA R1 :
         \* delete currentPage: no effect on nullptr
         [R1 EXCEPT !.events = IF R1.currentPage # 0 THEN Append(@, "delete") ELSE @,
                    !.currentPage = 1,
                    !.currentPageName = name,
                    !.currentPageParams = params])

\* Router::goBack: [R, ok]
GoBack(R) ==
    IF R.history = <<>> THEN [R |-> R, ok |-> FALSE]
    ELSE LET lastPageInfo == R.history[Len(R.history)]
             popped == [R EXCEPT !.history = SubSeq(@, 1, Len(@) - 1)]
         IN  IF lastPageInfo.name \notin R.routes THEN [R |-> popped, ok |-> FALSE]
             ELSE [R |-> [popped EXCEPT
                            \* currentPage->cleanup() if there is a page, then delete
                            !.events = IF R.currentPage # 0
                                       THEN @ \o <<"cleanup", "delete">> ELSE @,
                            !.deleted = IF R.currentPageParams # 0
                                           /\ R.currentPageName \in {"text", "comic"}
                                        THEN @ \cup {R.currentPageParams} ELSE @,
                            !.currentPage = 1,
                            !.currentPageName = lastPageInfo.name,
                            !.currentPageParams = lastPageInfo.params],
                   ok |-> TRUE]

-----------------------------------------------------------------------------
\* The state machine.

\* what a call records about itself
\* SDCard::SDCard: not initialized, at the root, no items, page 0 of 0
SDCardInit == [initialized |-> FALSE, currentPath |-> <<>>, items |-> 0,
               currentPage |-> 0, totalPages |-> 0]

\* TextViewerPage::TextViewerPage
TextViewerInit == [fileLoaded |-> FALSE, totalLines |-> 0, linesPerPage |-> 0,
                   currentScrollLine |-> 0, bookmarks |-> {},
                   detectedBookmarks |-> {}]

Tr0 == [freed |-> {}, doubleFree |-> FALSE, mutated |-> FALSE, evicted |-> <<>>,
        coldReads |-> 0, locator |-> 0, saves |-> <<>>, loaded |-> <<>>,
        skipped |-> <<>>, faults |-> {}, removed |-> {}, stopped |-> 0,
        dir |-> <<>>, before |-> <<>>, events |-> <<>>]

\* the state a call starts from
St == [cacheMap |-> cacheMap, cacheLRUList |-> cacheLRUList,
       currentCacheSizeInBytes |-> currentCacheSizeInBytes, heap |-> heap,
       fontBuffer |-> fontBuffer, bufferSize |-> bufferSize,
       currentSize |-> currentSize,
       fontsReadFromSDCounter |-> fontsReadFromSDCounter, sd |-> sd, tr |-> Tr0]

\* the state a call leaves, with its observation
Commit(S, obs) ==
    /\ cacheMap' = S.cacheMap
    /\ cacheLRUList' = S.cacheLRUList
    /\ currentCacheSizeInBytes' = S.currentCacheSizeInBytes
    /\ heap' = S.heap
    /\ fontBuffer' = S.fontBuffer
    /\ bufferSize' = S.bufferSize
    /\ currentSize' = S.currentSize
    /\ fontsReadFromSDCounter' = S.fontsReadFromSDCounter
    /\ sd' = S.sd
    /\ router' = router
    /\ sdCard' = sdCard
    /\ textViewer' = textViewer
    /\ last' = obs

\* the observation of a call: its arguments, what it returned and its trace
Obs(op, key, dataSize, ret, hit, ok, tr) ==
    [op |-> op, key |-> key, dataSize |-> dataSize, ret |-> ret, hit |-> hit,
     ok |-> ok, tr |-> tr]

NoKey == <<"", 0>>

\* Snapshot files found on the card at start: none; a metadata file that does
\* not parse; a snapshot whose second record points outside the blob; a
\* snapshot with a repeated key, an invalid record and sizes of any value; a
\* snapshot of one glyph of 8 pixels.
InitSnapshots ==
    { [fastJson |-> NoJson, fastBin |-> NoFile],
      [fastJson |-> [exists |-> TRUE, ok |-> FALSE, recs |-> <<>>],
       fastBin  |-> [exists |-> TRUE, bytes |-> Slice(FontBlob, 0, 32)]],
      [fastJson |-> [exists |-> TRUE, ok |-> TRUE, recs |->
            << [char |-> "ca", size |-> 16, offset |-> 0, dataSize |-> 32],
               [char |-> "cb", size |-> 16, offset |-> 100, dataSize |-> 32] >>],
       fastBin  |-> [exists |-> TRUE, bytes |-> Slice(FontBlob, 0, 64)]],
      [fastJson |-> [exists |-> TRUE, ok |-> TRUE, recs |->
            << [char |-> "ca", size |-> 24, offset |-> 0, dataSize |-> 8],
               [char |-> "cb", size |-> 0, offset |-> 8, dataSize |-> 8],
               [char |-> "ca", size |-> 24, offset |-> 8, dataSize |-> 8],
               [char |-> "cb", size |-> 16, offset |-> 0, dataSize |-> 64],
               [char |-> "cc", size |-> 16, offset |-> 16, dataSize |-> 16] >>],
       fastBin  |-> [exists |-> TRUE, bytes |-> Slice(FontBlob, 0, 64)]],
      [fastJson |-> [exists |-> TRUE, ok |-> TRUE, recs |->
            << [char |-> "ca", size |-> 8, offset |-> 0, dataSize |-> 8] >>],
       fastBin  |-> [exists |-> TRUE, bytes |-> Slice(FontBlob, 0, 8)]] }

\* Font::Font with the card as found
InitWith(snap) ==
    /\ cacheMap = <<>>
    /\ cacheLRUList = <<>>
    /\ currentCacheSizeInBytes = 0
    /\ heap = [p \in 1..MaxPtr |-> FreeBuf]
    /\ fontBuffer = 0
    /\ bufferSize = 0
    /\ currentSize = 0
    /\ fontsReadFromSDCounter = 0
    /\ sd = [fastJson |-> snap.fastJson, fastBin |-> snap.fastBin,
             glyph |-> [k \in GlyphKeys |-> NoFile], cacheDir |-> FALSE]
    /\ router = RouterInit
    /\ sdCard = SDCardInit
    /\ textViewer = TextViewerInit
    /\ last = Obs("init", NoKey, 0, 0, FALSE, TRUE, Tr0)

Init == \E snap \in InitSnapshots : InitWith(snap)

\* Glyphs the pages ask for: Display::drawCharacter requests size * 16 pixels
\* with the multipliers 1 and 2 the pages pass.  ca/16, cb/16 and ca/32 are in
\* the index, cc/16 resolves to the placeholder, cc/32 resolves to nothing.
Requests == {<<"ca", 16>>, <<"cb", 16>>, <<"cc", 16>>, <<"ca", 32>>, <<"cc", 32>>}

\* Records whose display update can do more than redraw the glyph just
\* inserted (a memory hit on the front node, which changes nothing): those
\* whose size is not the size drawCharacter asks for.
Redrawn(recs) == {i \in 1..Len(recs) : recs[i].size \notin {16, 32}}

\* a page draws a non-ASCII character: Display::drawCharacter calls
\* Font::getCharacterBitmap(character, size * 16)
Get ==
    \E k \in Requests :
        \E r \in {GetCharacterBitmap(St, k[1], k[2], {})} :
            Commit(r.S, Obs("get", k, 0, r.ret, r.hit, r.ret # 0, r.S.tr))

\* Font::loadFastFontCache is called.  upd: the records at which the 20 ms
\* display interval has elapsed; stale: whether the open handle of fast.font
\* keeps reading the old bytes after a save rewrote the file under it.
Load ==
    \E upd \in SUBSET Redrawn(sd.fastJson.recs),
       stale \in (IF fontsReadFromSDCounter + Len(sd.fastJson.recs) >= SAVE_CACHE_INTERVAL
                  THEN BOOLEAN ELSE {FALSE}) :
        \E r \in {LoadFastFontCache(St, [F |-> {}, at |-> 0, upd |-> upd,
                                         stale |-> stale])} :
            Commit(r.S, Obs("load", NoKey, 0, 0, FALSE, r.ok, r.S.tr))

Next == Get \/ Load

\* the program: pages drawing text and the snapshot being loaded, on a card
\* that works
Spec == Init /\ [][Next]_vars

-----------------------------------------------------------------------------
\* The LRU cache on its own: its four operations called in any order with any
\* arguments, as a unit test of the component would call them.

HarnessKeys == Chars \X {16}

\* data of 16, 32, 64 and 80 bytes, two contents each
HarnessData == {Slice(FontBlob, from, n) : from \in {0, 32}, n \in {16, 32, 64, 80}}

InitLRU == InitWith([fastJson |-> NoJson, fastBin |-> NoFile])

PutCall ==
    \E k \in HarnessKeys, d \in HarnessData, allocFail \in BOOLEAN :
        \E S \in {CachePut(St, k, d, k[2], Len(d), allocFail)} :
            Commit(S, Obs("put", k, Len(d), 0, FALSE, S.tr.mutated, S.tr))

GetCall ==
    \E k \in HarnessKeys :
        \E g \in {CacheGet(St, k)} :
            Commit(g.S, Obs("cacheGet", k, 0,
                            IF g.hit THEN g.S.cacheMap[k].bitmap ELSE 0,
                            g.hit, g.hit, g.S.tr))

EvictCall ==
    \E S \in {CacheEvict(St)} :
        Commit(S, Obs("evict", NoKey, 0, 0, FALSE, TRUE, S.tr))

ClearCall ==
    \E S \in {ClearMemoryCache(St)} :
        Commit(S, Obs("clear", NoKey, 0, 0, FALSE, TRUE, S.tr))

NextLRU == PutCall \/ GetCall \/ EvictCall \/ ClearCall

SpecLRU == InitLRU /\ [][NextLRU]_vars

-----------------------------------------------------------------------------
\* Properties of the LRU cache.

\* the step is a put of an absent key whose data fits the budget on its own
\* but not next to what is cached, and whose allocation does not fail
PutNeedsRoom ==
    /\ last'.op = "put"
    /\ last'.key \notin DOMAIN cacheMap
    /\ last'.dataSize <= MaxCacheBytes
    /\ currentCacheSizeInBytes + last'.dataSize > MaxCacheBytes
    /\ "mallocPut" \notin last'.tr.faults

\* C1: a put of an absent key that fits the budget on its own evicts from the
\* back of the order list until the entry fits and inserts it, so the key is
\* present afterwards.
C1_PutEvictsUntilFit == [][PutNeedsRoom => last'.key \in DOMAIN cacheMap']_vars

\* C8: with room for exactly two entries and A touched after B, a put of a
\* new key evicts B, the least recently touched entry, and the cache holds
\* exactly A and the new key.
C8_EvictsLeastRecentlyTouched ==
    [][ ( /\ last.op = "cacheGet" /\ last.hit
          /\ Len(cacheLRUList) = 2
          /\ cacheLRUList[1].key = last.key
          /\ PutNeedsRoom
          /\ last'.dataSize <= cacheMap[cacheLRUList[2].key].dataSize )
        => /\ DOMAIN cacheMap' = {cacheLRUList[1].key, last'.key}
           /\ last'.tr.evicted = <<cacheLRUList[2].key>> ]_vars

\* C9: a put on a key that is already present changes nothing: not the
\* byte count, the keys, the stored bytes and sizes, nor the order list.
C9_PutPresentIsNoOp ==
    [][ (last'.op = "put" /\ last'.key \in DOMAIN cacheMap)
        => /\ cacheMap' = cacheMap
           /\ cacheLRUList' = cacheLRUList
           /\ currentCacheSizeInBytes' = currentCacheSizeInBytes
           /\ heap' = heap ]_vars

\* a put was called on a key that is cached behind another one, with data of
\* another length than the cached entry's
C9_Witness ==
    /\ last.op = "put"
    /\ last.key \in DOMAIN cacheMap
    /\ ~last.tr.mutated
    /\ last.dataSize # cacheMap[last.key].dataSize
    /\ Len(cacheLRUList) >= 2
    /\ cacheLRUList[1].key # last.key

\* C2: the bytes counted as cached never exceed the budget.
C2_BudgetInvariant == currentCacheSizeInBytes <= MaxCacheBytes

\* a cold load succeeded on a full cache and its put was dropped
C2_Witness ==
    /\ last.op = "get" /\ last.ok /\ ~last.hit
    /\ ~last.tr.mutated
    /\ currentCacheSizeInBytes = MaxCacheBytes

RECURSIVE SumDataSize(_)
\* the sum of dataSize over the entries of the given keys
SumDataSize(ks) ==
    IF ks = {} THEN 0
    ELSE LET k == CHOOSE x \in ks : TRUE
         IN  cacheMap[k].dataSize + SumDataSize(ks \ {k})

\* C3: the byte count equals the sum of dataSize over the entries of the map.
C3_BytesAreSumOfEntries == currentCacheSizeInBytes = SumDataSize(DOMAIN cacheMap)

\* a call has inserted an entry next to one of another size
C3_Witness ==
    /\ last.tr.mutated
    /\ \E k1, k2 \in DOMAIN cacheMap : cacheMap[k1].dataSize < cacheMap[k2].dataSize

\* C10: the map and the order list are in bijection: the list holds each key
\* of the map exactly once and no other key, and the position stored in a map
\* slot is the node of the list that holds its key.
C10_MapListBijection ==
    /\ Len(cacheLRUList) = Cardinality(DOMAIN cacheMap)
    /\ \A i \in 1..Len(cacheLRUList) :
           /\ cacheLRUList[i].key \in DOMAIN cacheMap
           /\ cacheMap[cacheLRUList[i].key].it = cacheLRUList[i].node
    /\ \A i, j \in 1..Len(cacheLRUList) :
           i # j => /\ cacheLRUList[i].key # cacheLRUList[j].key
                    /\ cacheLRUList[i].node # cacheLRUList[j].node

\* a hit has moved the older of two nodes to the front
C10_Witness ==
    /\ last.op = "get" /\ last.hit
    /\ Len(cacheLRUList) = 2
    /\ cacheLRUList[1].key = last.key
    /\ cacheLRUList[1].node < cacheLRUList[2].node

-----------------------------------------------------------------------------
\* Properties of the glyph service.

\* C4: after a cold load that succeeded for a glyph that fits the budget, the
\* next request for the same glyph is served from memory, with the same bytes
\* and without another cold read.
C4_ColdThenHot ==
    [][ ( /\ last.op = "get" /\ last.ok /\ ~last.hit
          /\ BufLen(last.key[2]) <= MaxCacheBytes
          /\ last'.op = "get" /\ last'.key = last.key )
        => /\ last'.hit
           /\ last'.tr.coldReads = 0
           /\ heap'[last'.ret].bytes = heap[last.ret].bytes ]_vars

\* the keys of the records a load has skipped
SkippedKeys(tr) == {tr.skipped[i] : i \in 1..Len(tr.skipped)}

\* the step is a load that met a record whose bytes lie outside the blob
LoadMetOutOfRange ==
    /\ last'.op = "load"
    /\ \E i \in 1..Len(sd.fastJson.recs) :
           /\ sd.fastJson.recs[i].offset + sd.fastJson.recs[i].dataSize
                  > Len(sd.fastBin.bytes)
           /\ <<sd.fastJson.recs[i].char, sd.fastJson.recs[i].size>>
                  \in SkippedKeys(last'.tr)

\* C6: a load that meets a record whose offset or offset + dataSize lies
\* outside the blob returns failure and leaves neither snapshot file.
C6_CorruptSnapshotSelfHeal ==
    [][ LoadMetOutOfRange
        => /\ ~last'.ok
           /\ ~sd'.fastJson.exists
           /\ ~sd'.fastBin.exists ]_vars

\* C7 as stated: a buffer that getCharacterBitmap returned is still allocated
\* and unmodified after a following call that does not mutate the cache.
C7_ValidUntilCacheMutation ==
    [][ (last.op = "get" /\ last.ret # 0 /\ ~last'.tr.mutated)
        => heap'[last.ret] = heap[last.ret] ]_vars

\* C7: getCharacterBitmap returns an allocated buffer, the cache's own on a
\* hit and the scratch buffer on a miss; a call that does not mutate the
\* cache leaves every cache-owned buffer allocated and unmodified; a call
\* that does no cold load leaves the scratch buffer allocated and unmodified.
C7_BufferLifetime ==
    [][ /\ (last'.op = "get" /\ last'.ret # 0)
            => /\ heap'[last'.ret].alloc
               /\ last'.ret = IF last'.hit THEN cacheMap'[last'.key].bitmap
                              ELSE fontBuffer'
        /\ ~last'.tr.mutated
            => \A k \in DOMAIN cacheMap :
                   /\ heap[cacheMap[k].bitmap].alloc
                   /\ heap'[cacheMap[k].bitmap] = heap[cacheMap[k].bitmap]
        /\ (fontBuffer # 0 /\ last'.tr.coldReads = 0)
            => /\ fontBuffer' = fontBuffer
               /\ heap[fontBuffer].alloc
               /\ heap'[fontBuffer] = heap[fontBuffer] ]_vars

\* a miss whose put was dropped has freed the scratch buffer an earlier call
\* returned and has left the buffers of the cache allocated
C7_Witness ==
    /\ last.op = "get" /\ last.ok /\ ~last.hit
    /\ ~last.tr.mutated
    /\ last.tr.freed # {}
    /\ cacheMap # <<>>
    /\ \A k \in DOMAIN cacheMap : heap[cacheMap[k].bitmap].alloc

-----------------------------------------------------------------------------
\* The snapshot on its own: a cache filled by put, saved, cleared and loaded
\* in any order, as a unit test of the round trip would call them.

SaveCall ==
    \E r \in {SaveFastFontCache(St, {})} :
        Commit(r.S, Obs("save", NoKey, 0, 0, FALSE, r.ok, r.S.tr))

\* the glyphs of the harness have the size drawCharacter asks for, so a
\* display update of the load loop redraws the glyph just inserted
LoadCall ==
    \E r \in {LoadFastFontCache(St, [F |-> {}, at |-> 0, upd |-> {},
                                     stale |-> FALSE])} :
        Commit(r.S, Obs("load", NoKey, 0, 0, FALSE, r.ok, r.S.tr))

\* glyph data of 16 and 32 bytes
SnapData == {Slice(FontBlob, 0, 16), Slice(FontBlob, 0, 32), Slice(FontBlob, 32, 32)}

\* Font::cachePut with glyph data, the allocation succeeding
PutGlyphCall ==
    \E k \in HarnessKeys, d \in SnapData :
        \E S \in {CachePut(St, k, d, k[2], Len(d), FALSE)} :
            Commit(S, Obs("put", k, Len(d), 0, FALSE, S.tr.mutated, S.tr))

NextSnap == PutGlyphCall \/ SaveCall \/ ClearCall \/ LoadCall

SpecSnap == InitLRU /\ [][NextSnap]_vars

\* C5: a load that follows a successful save restores every key of the saved
\* cache with the dataSize and the bytes it had.
C5_SnapshotRoundTrip ==
    [][ (last.op = "save" /\ last.ok /\ last'.op = "load")
        => \A k \in DOMAIN cacheMap :
               /\ k \in DOMAIN cacheMap'
               /\ cacheMap'[k].dataSize = cacheMap[k].dataSize
               /\ heap'[cacheMap'[k].bitmap].bytes = heap[cacheMap[k].bitmap].bytes ]_vars

-----------------------------------------------------------------------------
\* Further properties of the LRU cache.

\* the order list without the node of the key
WithoutKey(list, key) == SelectSeq(list, LAMBDA e : e.key # key)

\* C11: cacheGet on a present key moves its node to the front of the order
\* list, keeps the order of the other nodes and changes neither the map nor
\* the byte count; cacheGet on an absent key returns null and changes nothing.
C11_GetMovesToFront ==
    [][ last'.op = "cacheGet"
        => /\ cacheMap' = cacheMap
           /\ currentCacheSizeInBytes' = currentCacheSizeInBytes
           /\ heap' = heap
           /\ IF last'.key \in DOMAIN cacheMap
              THEN /\ last'.hit
                   /\ last'.ret = cacheMap[last'.key].bitmap
                   /\ cacheLRUList'[1].key = last'.key
                   /\ cacheLRUList'[1].node = cacheMap[last'.key].it
                   /\ Tail(cacheLRUList') = WithoutKey(cacheLRUList, last'.key)
              ELSE /\ ~last'.hit
                   /\ last'.ret = 0
                   /\ cacheLRUList' = cacheLRUList ]_vars

\* a cacheGet has moved the oldest of three nodes to the front
C11_Witness ==
    /\ last.op = "cacheGet" /\ last.hit
    /\ Len(cacheLRUList) = 3
    /\ cacheLRUList[1].key = last.key
    /\ cacheLRUList[1].node = 1
    /\ cacheLRUList[2].node = 3

-----------------------------------------------------------------------------
\* Further properties of the glyph service.

\* the keys of the records of a metadata document
RecKeys(recs) == {<<recs[i].char, recs[i].size>> : i \in 1..Len(recs)}

\* C12: when a cold load triggers a save and its put admits the glyph, the
\* snapshot written by that save holds the glyph (stated for a cache that
\* fits the metadata document).
C12_SnapshotHoldsTriggeringGlyph ==
    [][ ( /\ last'.op = "get"
          /\ last'.tr.saves = <<TRUE>>
          /\ last'.key \notin DOMAIN cacheMap
          /\ last'.key \in DOMAIN cacheMap'
          /\ Cardinality(DOMAIN cacheMap') <= JsonDocCapacity )
        => last'.key \in RecKeys(sd'.fastJson.recs) ]_vars

-----------------------------------------------------------------------------
\* The program on a card and a heap that can fail: each call meets at most
\* one failure.

\* failures a page draw can meet: the allocation of the scratch buffer, the
\* read of the per-glyph file, the open and the read of the font file, the
\* allocation of the cached copy, and the opens and writes of a save
GetFaults == {"none", "mallocCold", "glyphRead", "fontOpen", "fontRead", "mallocPut",
              "saveOpenJson", "saveOpenBin", "saveWriteBin", "saveWriteJson",
              "saveWriteJsonShort"}

\* failures a load can meet: the opens of the two files, and the allocation
\* or the read for one record
LoadFaults == {"none", "loadOpenJson", "loadOpenBin", "mallocLoad", "loadRead"}

\* glyphs requested on the failing card: two that the index holds and one
\* that resolves to nothing
FaultRequests == {<<"ca", 16>>, <<"cb", 16>>, <<"cc", 32>>}

GetFault ==
    \E k \in FaultRequests, f \in GetFaults :
        \E r \in {GetCharacterBitmap(St, k[1], k[2], {f})} :
            Commit(r.S, Obs("get", k, 0, r.ret, r.hit, r.ret # 0, r.S.tr))

LoadFault ==
    \E f \in LoadFaults, at \in 1..2 :
        \E r \in {LoadFastFontCache(St, [F |-> {f}, at |-> at, upd |-> {},
                                         stale |-> FALSE])} :
            Commit(r.S, Obs("load", NoKey, 0, 0, FALSE, r.ok, r.S.tr))

NextFault == GetFault \/ LoadFault

SpecFault == InitLRU /\ [][NextFault]_vars

\* C13: a page draw invokes the save exactly when its cold load succeeds and
\* brings the counter to the threshold, and then resets the counter whatever
\* the save returns; a hit or a failed cold load leaves the counter alone and
\* saves nothing; after the call the counter is below the threshold.
C13_SaveEveryInterval ==
    [][ last'.op = "get"
        => /\ IF last'.hit \/ ~last'.ok
              THEN /\ fontsReadFromSDCounter' = fontsReadFromSDCounter
                   /\ last'.tr.saves = <<>>
              ELSE IF fontsReadFromSDCounter + 1 >= SAVE_CACHE_INTERVAL
              THEN /\ Len(last'.tr.saves) = 1
                   /\ fontsReadFromSDCounter' = 0
              ELSE /\ last'.tr.saves = <<>>
                   /\ fontsReadFromSDCounter' = fontsReadFromSDCounter + 1
           /\ fontsReadFromSDCounter' \in 0..(SAVE_CACHE_INTERVAL - 1) ]_vars

\* a cold load has triggered a save that failed, and the counter is reset
C13_Witness ==
    /\ last.op = "get" /\ last.ok /\ ~last.hit
    /\ last.tr.saves = <<FALSE>>
    /\ fontsReadFromSDCounter = 0

-----------------------------------------------------------------------------
\* Further properties of the snapshot.

\* the writes of a save that can fail: an entry's bytes to the blob, the
\* whole metadata document, or the metadata document after a part of it
SaveWriteFaults == {"saveWriteBin", "saveWriteJson", "saveWriteJsonShort"}

\* C14: a save that meets a failing write returns failure and leaves neither
\* the blob nor the metadata file.
C14_FailedSaveLeavesNoFile ==
    [][ (last'.tr.faults \cap SaveWriteFaults # {})
        => /\ last'.tr.saves = <<FALSE>>
           /\ ~sd'.fastJson.exists
           /\ ~sd'.fastBin.exists ]_vars

\* C15: after a save that returns success the metadata document holds one
\* record per key of the cache and no other; the byte ranges of the records
\* are contiguous from offset 0 in write order and lie inside the blob, and
\* the blob is as long as the byte count of the cache.
C15_SnapshotIsWholeCache ==
    [][ (last'.op = "save" /\ last'.ok)
        => /\ Len(sd'.fastJson.recs) = Cardinality(DOMAIN cacheMap)
           /\ RecKeys(sd'.fastJson.recs) = DOMAIN cacheMap
           /\ \A i \in 1..Len(sd'.fastJson.recs) :
                  /\ sd'.fastJson.recs[i].dataSize
                         = cacheMap[<<sd'.fastJson.recs[i].char,
                                      sd'.fastJson.recs[i].size>>].dataSize
                  /\ sd'.fastJson.recs[i].offset
                         = IF i = 1 THEN 0
                           ELSE sd'.fastJson.recs[i - 1].offset
                                    + sd'.fastJson.recs[i - 1].dataSize
                  /\ sd'.fastJson.recs[i].offset + sd'.fastJson.recs[i].dataSize
                         <= Len(sd'.fastBin.bytes)
           /\ Len(sd'.fastBin.bytes) = currentCacheSizeInBytes ]_vars

\* C16: a load called while either snapshot file is absent returns failure
\* and leaves the cache, the heap and the card as they were.
C16_LoadWithoutFiles ==
    [][ (last'.op = "load" /\ (~sd.fastJson.exists \/ ~sd.fastBin.exists))
        => /\ ~last'.ok
           /\ cacheMap' = cacheMap
           /\ cacheLRUList' = cacheLRUList
           /\ currentCacheSizeInBytes' = currentCacheSizeInBytes
           /\ heap' = heap
           /\ sd' = sd ]_vars

\* a load has returned failure on a card that holds one of the two files,
\* with a glyph in the cache
C16_Witness ==
    /\ last.op = "load" /\ ~last.ok
    /\ sd.fastJson.exists # sd.fastBin.exists
    /\ cacheMap # <<>>

\* C17: a load that finds both files and a metadata document that does not
\* parse returns failure, removes both files and leaves the cache as it was.
C17_UnparsableMetadata ==
    [][ ( /\ last'.op = "load"
          /\ sd.fastJson.exists /\ sd.fastBin.exists /\ ~sd.fastJson.ok
          /\ "loadOpenJson" \notin last'.tr.faults )
        => /\ ~last'.ok
           /\ ~sd'.fastJson.exists
           /\ ~sd'.fastBin.exists
           /\ cacheMap' = cacheMap
           /\ cacheLRUList' = cacheLRUList
           /\ currentCacheSizeInBytes' = currentCacheSizeInBytes
           /\ heap' = heap ]_vars

\* a load has removed both files and returned failure, with a glyph in the
\* cache
C17_Witness ==
    /\ last.op = "load" /\ ~last.ok
    /\ last.tr.removed = {"fast.font", "fast.json"}
    /\ ~last.tr.mutated
    /\ ~sd.fastJson.exists /\ ~sd.fastBin.exists
    /\ cacheMap # <<>>

\* the records of a metadata document that the load loop does not pass over
\* as invalid
ValidRecs(recs) == {i \in 1..Len(recs) : recs[i].size # 0 /\ recs[i].dataSize # 0}

\* C18: a load admits a record only while the byte count stays within the
\* budget; at the first record that would exceed it the load admits no
\* further record, not even a smaller one, and it still returns success.
C18_LoadStopsAtBudget ==
    [][ ( /\ last'.op = "load"
          /\ sd.fastJson.exists /\ sd.fastBin.exists /\ sd.fastJson.ok
          /\ last'.tr.faults \cap {"loadOpenJson", "loadOpenBin"} = {} )
        => /\ last'.ok
           /\ currentCacheSizeInBytes' <= MaxCacheBytes
           /\ \A n \in 1..Len(last'.tr.loaded) : last'.tr.loaded[n] \in DOMAIN cacheMap'
           /\ IF last'.tr.stopped > 0
              THEN /\ last'.tr.stopped \in ValidRecs(sd.fastJson.recs)
                   /\ currentCacheSizeInBytes'
                          + sd.fastJson.recs[last'.tr.stopped].dataSize > MaxCacheBytes
                   /\ \A n \in 1..Len(last'.tr.loaded) :
                          last'.tr.loaded[n]
                              \in RecKeys(SubSeq(sd.fastJson.recs, 1,
                                                 last'.tr.stopped - 1))
              ELSE \A i \in ValidRecs(sd.fastJson.recs) :
                       \/ <<sd.fastJson.recs[i].char, sd.fastJson.recs[i].size>>
                              \in DOMAIN cacheMap'
                       \/ <<sd.fastJson.recs[i].char, sd.fastJson.recs[i].size>>
                              \in SkippedKeys(last'.tr) ]_vars

\* a load has stopped at a record that exceeds the budget and has left out a
\* later record that would have fitted
C18_Witness ==
    /\ last.op = "load" /\ last.ok
    /\ last.tr.saves = <<>>
    /\ last.tr.stopped > 0
    /\ \E j \in ValidRecs(sd.fastJson.recs) :
           /\ j > last.tr.stopped
           /\ <<sd.fastJson.recs[j].char, sd.fastJson.recs[j].size>> \notin DOMAIN cacheMap
           /\ currentCacheSizeInBytes + sd.fastJson.recs[j].dataSize <= MaxCacheBytes

\* C19: on a hit getCharacterBitmap returns the buffer of the cache entry at
\* once: no storage access, the cold-load counter unchanged, no save, and the
\* scratch buffer of an earlier cold load neither freed nor replaced.
C19_HitReturnsCachedBuffer ==
    [][ (last'.op = "get" /\ last'.hit)
        => /\ last'.key \in DOMAIN cacheMap
           /\ last'.ret = cacheMap[last'.key].bitmap
           /\ DOMAIN cacheMap' = DOMAIN cacheMap
           /\ cacheMap'[last'.key] = cacheMap[last'.key]
           /\ sd' = sd
           /\ last'.tr.coldReads = 0
           /\ last'.tr.locator = 0
           /\ fontsReadFromSDCounter' = fontsReadFromSDCounter
           /\ last'.tr.saves = <<>>
           /\ fontBuffer' = fontBuffer
           /\ bufferSize' = bufferSize
           /\ heap' = heap
           /\ last'.tr.freed = {} ]_vars

\* a hit while the scratch buffer of an earlier cold load of another glyph
\* is still held
C19_Witness ==
    /\ last.op = "get" /\ last.hit
    /\ fontBuffer # 0
    /\ heap[fontBuffer] # FreeBuf
    /\ last.ret # fontBuffer
    /\ fontsReadFromSDCounter > 0

\* the injected failures that make Font::loadCharacter return false
ColdFaults == {"mallocCold", "fontOpen", "fontRead"}

\* C20: when the cold path fails (neither the glyph nor the placeholder can
\* be resolved, or the file cannot be opened or fully read, or the buffer
\* cannot be allocated) getCharacterBitmap returns null, inserts nothing,
\* leaves byte count and cold-load counter as they were and saves nothing.
C20_ColdFailureChangesNothing ==
    [][ ( /\ last'.op = "get"
          /\ last'.key \notin DOMAIN cacheMap
          /\ \/ last'.tr.faults \cap ColdFaults # {}
             \/ /\ ~sd.glyph[last'.key].exists
                /\ ~ResolveIndex(last'.key[1], last'.key[2]).ok )
        => /\ last'.ret = 0
           /\ ~last'.hit
           /\ cacheMap' = cacheMap
           /\ cacheLRUList' = cacheLRUList
           /\ currentCacheSizeInBytes' = currentCacheSizeInBytes
           /\ fontsReadFromSDCounter' = fontsReadFromSDCounter
           /\ last'.tr.saves = <<>>
           /\ sd'.fastJson = sd.fastJson
           /\ sd'.fastBin = sd.fastBin ]_vars

\* a request failed on a short read of the font file, with glyphs cached and
\* cold loads counted
C20_Witness ==
    /\ last.op = "get" /\ last.ret = 0
    /\ "fontRead" \in last.tr.faults
    /\ cacheMap # <<>>
    /\ DOMAIN cacheMap # {}
    /\ fontsReadFromSDCounter > 0

\* a request failed because neither the glyph nor the placeholder has an
\* entry at the requested size
C20_WitnessUnresolved ==
    /\ last.op = "get" /\ last.ret = 0
    /\ last.tr.faults = {}
    /\ ~ResolveIndex(last.key[1], last.key[2]).ok
    /\ DOMAIN cacheMap # {}

-----------------------------------------------------------------------------
\* Properties of the cold reader.

\* the per-glyph file of key k holds a whole bitmap of its size
GlyphFileWhole(card, k) ==
    card.glyph[k].exists /\ Len(card.glyph[k].bytes) = BufLen(k[2])

\* the step is a request that missed the memory cache
ColdLoadStep == last'.op = "get" /\ ~last'.hit /\ last'.tr.coldReads > 0

\* C21: once a cold read through the index has succeeded and written the
\* per-glyph file, the file stays as written, and every later cold load of
\* the same character and size is served from it without a call of
\* findIndexFile.
C21_GlyphFileSkipsIndex ==
    [][ /\ \* the index path leaves the whole bitmap in the per-glyph file
           (ColdLoadStep /\ last'.ret # 0 /\ last'.tr.locator > 0)
               => /\ GlyphFileWhole(sd', last'.key)
                  /\ sd'.glyph[last'.key].bytes = heap'[last'.ret].bytes
        /\ \* no call changes a file once it is written
           \A k \in GlyphKeys : GlyphFileWhole(sd, k) => sd'.glyph[k] = sd.glyph[k]
        /\ \* a later cold load reads the file and scans no index
           (ColdLoadStep /\ GlyphFileWhole(sd, last'.key))
               => /\ last'.tr.locator = 0
                  /\ last'.ret # 0
                  /\ heap'[last'.ret].bytes = sd.glyph[last'.key].bytes ]_vars

\* a cold load that was served from the per-glyph file
C21_Witness ==
    /\ last.op = "get" /\ ~last.hit /\ last.ret # 0
    /\ last.tr.coldReads = 1
    /\ last.tr.locator = 0
    /\ heap[last.ret].bytes = sd.glyph[last.key].bytes

-----------------------------------------------------------------------------
\* The cold reader on cards that already hold per-glyph files, with failures
\* of the card and of malloc.

\* /font_data/cache as found: for ca/16 no file, a truncated file,
\* a whole file (of another content than the blob's) or a file that is longer
\* than a bitmap of 16 pixels
GlyphFilesFound ==
    { NoFile,
      [exists |-> TRUE, bytes |-> Slice(FontBlob, 128, 16)],
      [exists |-> TRUE, bytes |-> Slice(FontBlob, 128, 32)],
      [exists |-> TRUE, bytes |-> Slice(FontBlob, 128, 40)] }

GlyphKeysFound == {<<"ca", 16>>}

InitGlyph ==
    \E found \in [GlyphKeysFound -> GlyphFilesFound] :
        /\ cacheMap = <<>>
        /\ cacheLRUList = <<>>
        /\ currentCacheSizeInBytes = 0
        /\ heap = [p \in 1..MaxPtr |-> FreeBuf]
        /\ fontBuffer = 0
        /\ bufferSize = 0
        /\ currentSize = 0
        /\ fontsReadFromSDCounter = 0
        /\ sd = [fastJson |-> NoJson, fastBin |-> NoFile,
                 glyph |-> [k \in GlyphKeys |->
                               IF k \in GlyphKeysFound THEN found[k] ELSE NoFile],
                 cacheDir |-> TRUE]
        /\ router = RouterInit
        /\ sdCard = SDCardInit
        /\ textViewer = TextViewerInit
        /\ last = Obs("init", NoKey, 0, 0, FALSE, TRUE, Tr0)

\* what can go wrong in one cold load
GlyphFaults == {"none", "mallocCold", "glyphRead", "fontRead",
                "glyphWriteOpen", "glyphWriteShort"}

GlyphRequests == {<<"ca", 16>>, <<"cc", 32>>, <<"cb", 12>>}

GetGlyph ==
    \E k \in GlyphRequests, f \in GlyphFaults :
        \E r \in {GetCharacterBitmap(St, k[1], k[2], {f})} :
            Commit(r.S, Obs("get", k, 0, r.ret, r.hit, r.ret # 0, r.S.tr))

NextGlyph == GetGlyph \/ ClearCall

SpecGlyph == InitGlyph /\ [][NextGlyph]_vars

\* the bitmap the index path yields for a request: the bytes of the blob at
\* the offset the index names, none when the request does not resolve
IndexBitmap(character, size) ==
    LET r == ResolveIndex(character, size)
        e == IndexDocs[r.doc].map[<<r.character, size>>]
    IN  IF r.ok THEN Slice(Blobs[e.file], e.offset, BufLen(size)) ELSE <<>>

\* the step is a cold load, free of injected read and allocation failures,
\* of a glyph whose per-glyph file exists with a length chosen by Wrong
MismatchStep(Wrong(_, _)) ==
    /\ ColdLoadStep
    /\ last'.tr.faults \cap {"mallocCold", "glyphRead", "fontOpen", "fontRead"} = {}
    /\ sd.glyph[last'.key].exists
    /\ Wrong(Len(sd.glyph[last'.key].bytes), BufLen(last'.key[2]))

\* the request went on to the index path and returned what that path yields
ServedFromIndex ==
    /\ last'.tr.locator > 0
    /\ IF ResolveIndex(last'.key[1], last'.key[2]).ok
       THEN /\ last'.ret # 0
            /\ heap'[last'.ret].bytes = IndexBitmap(last'.key[1], last'.key[2])
       ELSE last'.ret = 0

\* C22: a per-glyph file whose length is not the expected length, shorter or
\* longer, is treated as a miss: the request continues on the index path and
\* returns the bitmap of the index path.
C22_WrongLengthIsMiss ==
    [][MismatchStep(LAMBDA len, n : len # n) => ServedFromIndex]_vars

\* the part of C22 about truncated files
C22_TruncatedIsMiss ==
    [][MismatchStep(LAMBDA len, n : len < n) => ServedFromIndex]_vars

\* a truncated per-glyph file was passed over and the index path served the
\* request
C22_TruncatedWitness ==
    /\ last.op = "get" /\ ~last.hit /\ last.ret # 0
    /\ last.tr.faults = {}
    /\ last.tr.locator > 0
    /\ last.key = <<"ca", 16>>
    /\ heap[last.ret].bytes = IndexBitmap("ca", 16)
    /\ \A k \in DOMAIN cacheMap : k = last.key
    /\ fontsReadFromSDCounter = 1

\* C23: within one request the placeholder is substituted at most once and
\* the index lookup is repeated once after it, so findIndexFile is called at
\* most twice per request.
C23_LocatorAtMostTwice ==
    [][(last'.op = "get") => last'.tr.locator <= 2]_vars

\* the part of C23 about the result: a request that resolves neither to its
\* glyph nor to the placeholder fails
C23_UnresolvedFails ==
    [][ ( /\ ColdLoadStep
          /\ ~sd.glyph[last'.key].exists
          /\ ~ResolveIndex(last'.key[1], last'.key[2]).ok )
        => last'.ret = 0 /\ last'.tr.locator \in 2..3 ]_vars

\* the buffers that are allocated and that no cache entry owns
Unowned(h, map) ==
    {p \in 1..MaxPtr : h[p].alloc /\ \A k \in DOMAIN map : map[k].bitmap # p}

\* C24: a cold load returns either a buffer that was filled with exactly the
\* expected number of bytes, or failure with no buffer held: after a failure
\* fontBuffer is null and the buffer the load allocated is released; no
\* success follows a short read.
C24_WholeBufferOrNone ==
    [][ ColdLoadStep
        => IF last'.ret # 0
           THEN /\ fontBuffer' = last'.ret
                /\ heap'[fontBuffer'].alloc
                /\ bufferSize' = BufLen(last'.key[2])
                /\ Len(heap'[fontBuffer'].bytes) = bufferSize'
                /\ \/ heap'[fontBuffer'].bytes
                          = Slice(sd.glyph[last'.key].bytes, 0, bufferSize')
                   \/ heap'[fontBuffer'].bytes
                          = IndexBitmap(last'.key[1], last'.key[2])
           ELSE /\ fontBuffer' = 0
                /\ Unowned(heap', cacheMap') = {}
                /\ ~last'.tr.doubleFree ]_vars

\* a cold load failed on a short read of the font file after it had
\* allocated its buffer, and released the buffer
C24_Witness ==
    /\ last.op = "get" /\ last.ret = 0 /\ ~last.hit
    /\ "fontRead" \in last.tr.faults
    /\ last.tr.freed # {}
    /\ fontBuffer = 0
    /\ bufferSize = BufLen(last.key[2])
    \* no cold load has succeeded before, so the buffer released is the one
    \* this load allocated
    /\ fontsReadFromSDCounter = 0 /\ DOMAIN cacheMap = {} /\ ~sd.fastJson.exists

\* the size of a glyph in a blob file: rows of ceil(pixelSize / 8) bytes
GlyphBytes(pixelSize) == ((pixelSize + 7) \div 8) * pixelSize

\* one more than the largest index Display::drawCharacter reads in a bitmap
\* of fontWidth = fontHeight = pixelSize: byteIndex = py * byteWidth + px / 8
RenderExtent(pixelSize) ==
    LET byteWidth == (pixelSize + 7) \div 8
    IN  (pixelSize - 1) * byteWidth + (pixelSize - 1) \div 8 + 1

\* C25: the number of bytes a cold load allocates and reads for a glyph is
\* the glyph size of the blob format, rowBytes * pixelSize with rowBytes =
\* ceil(pixelSize / 8), which is the extent the renderer indexes.
C25_BufferIsGlyphSize ==
    [][ (ColdLoadStep /\ last'.ret # 0)
        => /\ bufferSize' = GlyphBytes(last'.key[2])
           /\ Len(heap'[last'.ret].bytes) = GlyphBytes(last'.key[2])
           /\ GlyphBytes(last'.key[2]) = RenderExtent(last'.key[2]) ]_vars

\* the part of C25 that holds: for sizes that are multiples of 8 the buffer
\* has the size of the format
C25_MultipleOfEight ==
    [][ (ColdLoadStep /\ last'.ret # 0 /\ last'.key[2] % 8 = 0)
        => /\ bufferSize' = GlyphBytes(last'.key[2])
           /\ Len(heap'[last'.ret].bytes) = GlyphBytes(last'.key[2])
           /\ GlyphBytes(last'.key[2]) = RenderExtent(last'.key[2]) ]_vars

-----------------------------------------------------------------------------
\* Ownership of the bitmap buffers.

\* the buffers the entries of a map own
Bitmaps(map) == {map[k].bitmap : k \in DOMAIN map}

\* C26: every buffer allocated for a cache entry is released exactly once:
\* a buffer is allocated as long as its entry is in the map, no two entries
\* share a buffer, a call frees the buffer of every entry it removes and
\* frees nothing twice, and a load leaves no buffer allocated that it did
\* not insert.
C26_BuffersReleasedOnce ==
    [][ /\ \A k \in DOMAIN cacheMap' : heap'[cacheMap'[k].bitmap].alloc
        /\ \A k1, k2 \in DOMAIN cacheMap' :
               cacheMap'[k1].bitmap = cacheMap'[k2].bitmap => k1 = k2
        /\ ~last'.tr.doubleFree
        /\ \* entries that were removed: their buffers were freed
           \A k \in DOMAIN cacheMap :
               (k \notin DOMAIN cacheMap' \/ cacheMap'[k].bitmap # cacheMap[k].bitmap)
                   => cacheMap[k].bitmap \in last'.tr.freed
        /\ \* no buffer is left allocated outside the map and the scratch buffer
           Unowned(heap', cacheMap') \subseteq {fontBuffer'}
        /\ fontBuffer' \notin Bitmaps(cacheMap') ]_vars

\* a load has cleared a cache that held entries, has skipped a record whose
\* read failed after the allocation, and has inserted another
C26_Witness ==
    /\ last.op = "load" /\ last.ok
    /\ last.tr.skipped # <<>>
    /\ last.tr.loaded # <<>>
    /\ Cardinality(last.tr.freed) >= 2
    /\ Unowned(heap, cacheMap) \subseteq {fontBuffer}

-----------------------------------------------------------------------------
\* Nesting of load and save.

\* a load step in which nothing but the load itself touched the font state:
\* no save, no cold load, no entry but the records it inserted, and the
\* snapshot files as they were unless the load removed them
LoadAlone ==
    /\ last'.tr.saves = <<>>
    /\ last'.tr.coldReads = 0
    /\ fontsReadFromSDCounter' = fontsReadFromSDCounter
    /\ sd'.glyph = sd.glyph
    /\ sd'.fastJson \in {sd.fastJson, NoJson}
    /\ sd'.fastBin \in {sd.fastBin, NoFile}
    /\ last'.ok => \A k \in DOMAIN cacheMap' :
                       \E n \in 1..Len(last'.tr.loaded) : last'.tr.loaded[n] = k

\* C27: load and save never nest: while loadFastFontCache runs, its display
\* updates included, no save is started, the snapshot files are not written,
\* and no cold load or put happens besides the insertions of the load.
C27_LoadAndSaveNeverNest == [][(last'.op = "load") => LoadAlone]_vars

\* the part of C27 that holds: a load whose records all have a size that
\* drawCharacter asks for redraws from the memory cache
C27_NoNestingForDrawnSizes ==
    [][(last'.op = "load" /\ Redrawn(sd.fastJson.recs) = {}) => LoadAlone]_vars

\* a load during which a display update started a save
C27_NestedSave ==
    /\ last.op = "load" /\ last.ok
    /\ last.tr.saves # <<>>
    /\ last.tr.coldReads > 0

-----------------------------------------------------------------------------
\* Properties of the index locator.

\* entries a /font_data directory can hold: an index document that does not
\* parse, two that parse (ca alone; cb and ca), a blob file, and a file that
\* is JSON and names ca but is not an index document
DirEntries ==
    { [name |-> "index_0", ok |-> FALSE, map |-> <<>>],
      [name |-> "index_1", ok |-> TRUE,
       map |-> (<<"ca", 16>> :> [file |-> "f1.bin", offset |-> 0])],
      [name |-> "index_2", ok |-> TRUE,
       map |-> ( <<"cb", 16>> :> [file |-> "f1.bin", offset |-> 32]
              @@ <<"ca", 32>> :> [file |-> "f1.bin", offset |-> 96] )],
      [name |-> "f1.bin", ok |-> FALSE, map |-> <<>>],
      [name |-> "fast.json", ok |-> TRUE,
       map |-> (<<"ca", 16>> :> [file |-> "f1.bin", offset |-> 0])] }

\* the directories of up to MaxDirLen entries, in every order
Directories == UNION {[1..n -> DirEntries] : n \in 0..MaxDirLen}

\* the well-formed index documents of a directory that declare the character
Declaring(dir, character) ==
    {i \in 1..Len(dir) : /\ IsIndexName(dir[i].name) /\ dir[i].ok
                         /\ DocHasChar(dir[i], character)}

\* Font::findIndexFile called on a directory, for a character
FindIndexCall ==
    \E dir \in Directories, c \in Chars :
        /\ last' = Obs("findIndexFile", <<c, 0>>, 0, FindIndexIn(dir, c), FALSE,
                       FindIndexIn(dir, c) # 0, [Tr0 EXCEPT !.dir = dir])
        /\ UNCHANGED <<cacheMap, cacheLRUList, currentCacheSizeInBytes, heap,
                       fontBuffer, bufferSize, currentSize,
                       fontsReadFromSDCounter, sd, router, sdCard, textViewer>>

NextLocator == FindIndexCall

\* the locator on its own, on every directory
SpecLocator == InitLRU /\ [][NextLocator]_vars

\* C28: findIndexFile skips a document that fails to parse and keeps
\* scanning: in every directory order it returns a well-formed document that
\* declares the character when there is one, whatever malformed documents
\* come before it, and not-found only when there is none.
C28_MalformedDocumentSkipped ==
    (last.op = "findIndexFile")
        => IF Declaring(last.tr.dir, last.key[1]) # {}
           THEN last.ret \in Declaring(last.tr.dir, last.key[1])
           ELSE last.ret = 0

\* the locator has passed a document that does not parse and has returned
\* the well-formed document behind it
C28_Witness ==
    /\ last.op = "findIndexFile"
    /\ Len(last.tr.dir) >= 2
    /\ last.tr.dir[1].name = "index_0" /\ ~last.tr.dir[1].ok
    /\ last.ret = 2
    /\ DocHasChar(last.tr.dir[2], last.key[1])

-----------------------------------------------------------------------------
\* Allocation failure.

\* the in-memory cache is as it was before the step
CacheUntouched ==
    /\ cacheMap' = cacheMap
    /\ cacheLRUList' = cacheLRUList
    /\ currentCacheSizeInBytes' = currentCacheSizeInBytes

\* C29: a failed allocation caches nothing: when the malloc of the cold
\* reader fails getCharacterBitmap returns null with the in-memory cache and
\* the cold-load counter unchanged, and when the malloc of cachePut fails the
\* map, the order list and the byte count are unchanged.
C29_AllocationFailureCachesNothing ==
    [][ /\ (last'.op = "get" /\ "mallocCold" \in last'.tr.faults)
            => /\ last'.ret = 0
               /\ CacheUntouched
               /\ fontsReadFromSDCounter' = fontsReadFromSDCounter
        /\ (last'.op = "get" /\ "mallocPut" \in last'.tr.faults)
            => /\ CacheUntouched
               /\ last'.key \notin DOMAIN cacheMap' ]_vars

\* the cold load of a glyph that fits the cache succeeded and the malloc of
\* its put failed, with another glyph cached
C29_Witness ==
    /\ last.op = "get" /\ last.ret # 0
    /\ last.tr.faults = {"mallocPut"}
    /\ last.key \notin DOMAIN cacheMap
    /\ DOMAIN cacheMap # {}
    /\ currentCacheSizeInBytes + bufferSize <= MaxCacheBytes

\* the malloc of the cold reader failed, with a glyph cached and loads counted
C29_WitnessCold ==
    /\ last.op = "get" /\ last.ret = 0
    /\ last.tr.faults = {"mallocCold"}
    /\ DOMAIN cacheMap # {}
    /\ fontsReadFromSDCounter > 0

-----------------------------------------------------------------------------
\* The router on its own: pages are registered, navigated to and left.

\* Longest history the model lets navigateTo build.
MaxHistory == 3

\* "image" is a page name that is used but may not be registered
PageNames == {"menu", "text", "image"}
PageParams == {0, 1}

UnchangedFont ==
    UNCHANGED <<cacheMap, cacheLRUList, currentCacheSizeInBytes, heap, fontBuffer,
                bufferSize, currentSize, fontsReadFromSDCounter, sd>>

\* the router's calls leave the card browser and the text viewer alone
UnchangedPages == UNCHANGED <<sdCard, textViewer>>

RegisterPageCall ==
    \E name \in PageNames \ {"image"} :
        /\ router' = RegisterPage(router, name)
        /\ last' = Obs("registerPage", <<name, 0>>, 0, 0, FALSE, TRUE, Tr0)
        /\ UnchangedFont
        /\ UnchangedPages

NavigateToCall ==
    \E name \in PageNames, params \in PageParams :
        /\ Len(router.history) < MaxHistory
        /\ \E R \in {NavigateTo(router, name, params)} :
               /\ router' = [R EXCEPT !.events = <<>>]
               /\ last' = Obs("navigateTo", <<name, params>>, 0, 0, FALSE,
                              name \in router.routes,
                              [Tr0 EXCEPT !.before = router, !.events = R.events])
        /\ UnchangedFont
        /\ UnchangedPages

GoBackCall ==
    \E r \in {GoBack(router)} :
        /\ router' = [r.R EXCEPT !.events = <<>>]
        /\ last' = Obs("goBack", NoKey, 0, 0, FALSE, r.ok,
                       [Tr0 EXCEPT !.before = router, !.events = r.R.events])
        /\ UnchangedFont
        /\ UnchangedPages

NextRouter == RegisterPageCall \/ NavigateToCall \/ GoBackCall

SpecRouter == InitLRU /\ [][NextRouter]_vars

\* C30: navigation is a stack round trip: from a router state with a current
\* page, navigateTo of a registered page followed by goBack returns true and
\* restores the current page name, the current page parameters and the
\* history; goBack on an empty history returns false and changes nothing.
C30_NavigateThenGoBack ==
    [][ /\ ( /\ last.op = "navigateTo" /\ last.ok
             /\ last.tr.before.currentPage # 0
             /\ last'.op = "goBack" )
            => /\ last'.ok
               /\ router'.currentPage # 0
               /\ router'.currentPageName = last.tr.before.currentPageName
               /\ router'.currentPageParams = last.tr.before.currentPageParams
               /\ router'.history = last.tr.before.history
               /\ router'.routes = last.tr.before.routes
        /\ (last'.op = "goBack" /\ router.history = <<>>)
            => ~last'.ok /\ router' = router ]_vars

\* a goBack has undone a navigateTo that left a page with parameters and a
\* history behind it
C30_Witness ==
    /\ last.op = "goBack" /\ last.ok
    /\ last.tr.before.history # <<>>
    /\ router.history # <<>>
    /\ router.currentPageParams # 0
    /\ router.currentPageName # last.tr.before.currentPageName
    /\ router.currentPageParams # last.tr.before.currentPageParams

\* every delete of a page object in a sequence of events directly follows
\* the cleanup of that page
CleanupBeforeDelete(events) ==
    \A i \in 1..Len(events) :
        events[i] = "delete" => (i > 1 /\ events[i - 1] = "cleanup")

\* C31: the router calls cleanup() on a page before it destroys the page, on
\* every path that destroys one: navigateTo replacing the current page, and
\* goBack.
C31_CleanupBeforeDestroy ==
    [][(last'.op \in {"navigateTo", "goBack"})
           => CleanupBeforeDelete(last'.tr.events)]_vars

\* the part of C31 that holds: goBack cleans the page up before deleting it
C31_GoBackCleansUp ==
    [][(last'.op = "goBack" /\ last'.ok)
           => last'.tr.events = <<"cleanup", "delete">>]_vars

\* navigateTo has replaced a current page and deleted it without cleanup
C31_DeletedWithoutCleanup ==
    /\ last.op = "navigateTo" /\ last.ok
    /\ last.tr.before.currentPageName = "text"
    /\ last.tr.events = <<"delete">>

-----------------------------------------------------------------------------
\* Sizes of the cached bitmaps.

\* (pixelSize * pixelSize + 7) / 8, in the integers
PackedLen(pixelSize) == (pixelSize * pixelSize + 7) \div 8

\* C32: in every reachable state each cache entry under (character,
\* pixelSize) has dataSize (pixelSize * pixelSize + 7) / 8 and a buffer of
\* that length, also when the entry was admitted by a load from a snapshot.
C32_EntriesHaveExpectedLength ==
    \A k \in DOMAIN cacheMap :
        /\ cacheMap[k].dataSize = PackedLen(k[2])
        /\ Len(heap[cacheMap[k].bitmap].bytes) = PackedLen(k[2])

\* the part of C32 that holds: an entry cached by getCharacterBitmap has the
\* expected length
C32_PutEntriesHaveExpectedLength ==
    [][(last'.op = "get" /\ last'.key \in DOMAIN cacheMap' /\ ~last'.hit
            /\ last'.key \notin DOMAIN cacheMap)
        => /\ cacheMap'[last'.key].dataSize = PackedLen(last'.key[2])
           /\ Len(heap'[cacheMap'[last'.key].bitmap].bytes) = PackedLen(last'.key[2])]_vars

-----------------------------------------------------------------------------
\* The cache after a load.

\* every entry of the cache after the step is a record of the snapshot the
\* step loaded, with the bytes of the blob at the offset of the record
OnlySnapshotEntries ==
    \A k \in DOMAIN cacheMap' :
        \E i \in 1..Len(sd.fastJson.recs) :
            /\ <<sd.fastJson.recs[i].char, sd.fastJson.recs[i].size>> = k
            /\ cacheMap'[k].dataSize = sd.fastJson.recs[i].dataSize
            /\ heap'[cacheMap'[k].bitmap].bytes
                   = Slice(sd.fastBin.bytes, sd.fastJson.recs[i].offset,
                           sd.fastJson.recs[i].dataSize)

\* C33: after a load returned success the cache holds only keys recorded in
\* the snapshot metadata, each with the bytes read from the blob at its
\* recorded offset: what was cached before is discarded and no key from
\* outside the snapshot is present.
C33_CacheIsSnapshotAfterLoad ==
    [][(last'.op = "load" /\ last'.ok) => OnlySnapshotEntries]_vars

\* the part of C33 that holds: a load during which no display update
\* started a cold load
C33_WithoutNestedColdLoad ==
    [][(last'.op = "load" /\ last'.ok /\ last'.tr.coldReads = 0)
           => OnlySnapshotEntries]_vars

\* a load returned success with a key in the cache that the snapshot does
\* not record
C33_KeyFromOutsideSnapshot ==
    /\ last.op = "load" /\ last.ok
    /\ last.tr.saves = <<>>
    /\ \E k \in DOMAIN cacheMap : k \notin RecKeys(sd.fastJson.recs)

-----------------------------------------------------------------------------
\* Storage after a failed save.

\* the two snapshot files are both absent
SnapshotAbsent(card) == ~card.fastJson.exists /\ ~card.fastBin.exists

\* C34: after a save that returns failure the card holds no file that the
\* save created or truncated: the two snapshot files are both absent, or
\* both are exactly as they were before the save.
C34_FailedSaveLeavesNoPartialFile ==
    [][ (last'.op = "get" /\ last'.tr.saves = <<FALSE>>)
        => \/ SnapshotAbsent(sd')
           \/ /\ sd'.fastJson = sd.fastJson
              /\ sd'.fastBin = sd.fastBin ]_vars

\* the same for every failed save except the one that could not open the
\* blob
C34_ExceptBlobOpen ==
    [][ (/\ last'.op = "get" /\ last'.tr.saves = <<FALSE>>
         /\ "saveOpenBin" \notin last'.tr.faults)
        => \/ SnapshotAbsent(sd')
           \/ /\ sd'.fastJson = sd.fastJson
              /\ sd'.fastBin = sd.fastBin ]_vars

\* a save has failed at the open of the blob and left an empty metadata file
\* beside no blob
C34_TruncatedMetadataLeft ==
    /\ last.op = "get" /\ last.tr.saves = <<FALSE>>
    /\ "saveOpenBin" \in last.tr.faults
    /\ sd.fastJson = EmptyJson
    /\ ~sd.fastBin.exists

-----------------------------------------------------------------------------
\* The placeholder glyph.

\* the bitmaps a request for (character, size) may be answered with: the one
\* the index maps the pair to, and the one it maps the placeholder to at
\* that size
AllowedBitmaps(character, size) ==
    {Slice(Blobs[d.map[<<c, size>>].file], d.map[<<c, size>>].offset, PackedLen(size)) :
        <<d, c>> \in {x \in {IndexDocs[i] : i \in 1..Len(IndexDocs)}
                              \X {character, PLACEHOLDER} :
                          x[1].ok /\ DocHasGlyph(x[1], x[2], size)}}

\* no index declares the character of the request
Undeclared(character) == FindIndexFile(character) = 0

C35_WitnessLater ==
    /\ last.op = "get" /\ last.hit /\ last.ret # 0
    /\ Undeclared(last.key[1])
    /\ heap[last.ret].bytes \in AllowedBitmaps(PLACEHOLDER, last.key[2])

-----------------------------------------------------------------------------
\* SDCard (src/src/core/sdcard.cpp): the directory browser and its paging.
\* A path is the sequence of its directory names, <<>> for "/"; of
\* currentItems the model keeps only its size.

\* The largest size_t.  It is 2^32 - 1 on the ESP32; the model takes the
\* largest integer TLC represents, which every page number of the model is
\* below as it is below 2^32 - 1.
SIZE_MAX == 2147483647

\* a - 1 in size_t arithmetic: 0 - 1 wraps to the largest value
SizeMinusOne(a) == IF a = 0 THEN SIZE_MAX ELSE a - 1

\* MAX_ITEMS_PER_PAGE (config.h)
MAX_ITEMS_PER_PAGE == 4

\* The directories of the card and the number of entries openNextFile yields
\* in each: a root of two pages, a directory of three, an empty one and one
\* of a single full page.
CardDirs == ( <<>>         :> 5
           @@ <<"a">>      :> 9
           @@ <<"a", "b">> :> 0
           @@ <<"b">>      :> 4 )

\* Largest page number the model lets nextPage count to.
MaxPage == 4

\* SDCard::updatePageInfo
UpdatePageInfo(C) ==
    LET n == (C.items + MAX_ITEMS_PER_PAGE - 1) \div MAX_ITEMS_PER_PAGE
        total == IF n = 0 THEN 1 ELSE n
    IN  [C EXCEPT !.totalPages = total,
                  !.currentPage = IF @ >= total THEN total - 1 ELSE @]

\* SDCard::loadDirectory: [C, ok]; openFail: SD.open returns no file
LoadDirectory(C, path, openFail) ==
    IF ~C.initialized THEN [C |-> C, ok |-> FALSE]
    ELSE IF openFail \/ path \notin DOMAIN CardDirs THEN [C |-> C, ok |-> FALSE]
    ELSE [C |-> Then([C EXCEPT !.items = CardDirs[path], !.currentPath = path,
                               !.currentPage = 0],
                     LAMBDA C1 : UpdatePageInfo(C1)),
          ok |-> TRUE]

\* SDCard::begin: [C, ok]; mountFail: SD.begin returns false
Begin(C, mountFail, openFail) ==
    IF mountFail THEN [C |-> C, ok |-> FALSE]
    ELSE Then([C EXCEPT !.initialized = TRUE],
              LAMBDA C1 : LoadDirectory(C1, <<>>, openFail))

\* SDCard::enterDirectory
EnterDirectory(C, dirName, openFail) ==
    LoadDirectory(C, Append(C.currentPath, dirName), openFail)

\* SDCard::goBack (the card browser's, not the router's)
SDGoBack(C, openFail) ==
    IF C.currentPath = <<>> THEN [C |-> C, ok |-> FALSE]
    ELSE IF Len(C.currentPath) = 1 THEN LoadDirectory(C, <<>>, openFail)
    ELSE LoadDirectory(C, SubSeq(C.currentPath, 1, Len(C.currentPath) - 1), openFail)

\* SDCard::nextPage: the comparison is between two size_t values
NextPage(C) ==
    IF C.currentPage < SizeMinusOne(C.totalPages)
    THEN [C EXCEPT !.currentPage = @ + 1]
    ELSE C

\* SDCard::prevPage
PrevPage(C) ==
    IF C.currentPage > 0 THEN [C EXCEPT !.currentPage = @ - 1] ELSE C

DirNames == {"a", "b", "x"}

\* the paths loadDirectory is called with: those of the card and one that
\* does not exist
LoadPaths == DOMAIN CardDirs \cup {<<"x">>}

\* a call of the card browser leaves the rest alone
SDCommit(C, op, path, ok) ==
    /\ sdCard' = C
    /\ last' = Obs(op, NoKey, 0, 0, FALSE, ok, [Tr0 EXCEPT !.dir = path])
    /\ UnchangedFont
    /\ UNCHANGED <<router, textViewer>>

BeginCall ==
    \E mountFail \in BOOLEAN, openFail \in BOOLEAN :
        \E r \in {Begin(sdCard, mountFail, openFail)} :
            SDCommit(r.C, "begin", <<>>, r.ok)

LoadDirectoryCall ==
    \E path \in LoadPaths, openFail \in BOOLEAN :
        \E r \in {LoadDirectory(sdCard, path, openFail)} :
            SDCommit(r.C, "loadDirectory", path, r.ok)

EnterDirectoryCall ==
    \E dirName \in DirNames, openFail \in BOOLEAN :
        \E r \in {EnterDirectory(sdCard, dirName, openFail)} :
            SDCommit(r.C, "enterDirectory", <<dirName>>, r.ok)

SDGoBackCall ==
    \E openFail \in BOOLEAN :
        \E r \in {SDGoBack(sdCard, openFail)} :
            SDCommit(r.C, "sdGoBack", <<>>, r.ok)

NextPageCall ==
    /\ sdCard.currentPage < MaxPage
    /\ SDCommit(NextPage(sdCard), "nextPage", <<>>, TRUE)

PrevPageCall == SDCommit(PrevPage(sdCard), "prevPage", <<>>, TRUE)

NextSD ==
    \/ BeginCall
    \/ LoadDirectoryCall
    \/ EnterDirectoryCall
    \/ SDGoBackCall
    \/ NextPageCall
    \/ PrevPageCall

SpecSD == InitLRU /\ [][NextSD]_vars

\* C36: in every state of the card browser the current page is a valid
\* page: it is at most totalPages - 1 once a directory is loaded
\* (totalPages >= 1), and it is 0 while no directory has been loaded.
C36_CurrentPageValid ==
    /\ sdCard.totalPages >= 1 => sdCard.currentPage <= sdCard.totalPages - 1
    /\ sdCard.totalPages = 0 => sdCard.currentPage = 0

\* the same once a directory has been loaded
C36_ValidOnceLoaded ==
    sdCard.totalPages >= 1 => sdCard.currentPage <= sdCard.totalPages - 1

\* nextPage has advanced the page of a browser that has loaded no directory
C36_AdvancedWithoutDirectory ==
    /\ last.op = "nextPage"
    /\ sdCard.totalPages = 0
    /\ sdCard.currentPage > 0

-----------------------------------------------------------------------------
\* TextViewerPage (src/src/pages/text_viewer_page.cpp): the scroll position.
\* A viewer state V holds fileLoaded, totalLines, linesPerPage,
\* currentScrollLine and the two bookmark lists (as sets: the code sorts them
\* and removes duplicates before it searches them).

Max(a, b) == IF a > b THEN a ELSE b

\* Most lines the metadata calculation counts in the model.
MaxLines == 6

\* CONTENT_HEIGHT in the model, in pixels (195 in the source).
ContentHeight == 6

\* the values getCharacterHeight gives for the line height: one that fits
\* three lines on the page and one taller than the page
LineHeights == {2, 8}

\* the clamp of handleScroll, loadMetadataFromCache and the bookmark jumps
ClampScroll_NoUpper(V, line) == Max(0, line)

ClampScroll(V, line) ==
    IF V.totalLines > V.linesPerPage
    THEN Min(Max(0, line), V.totalLines - V.linesPerPage)
    ELSE 0

\* TextViewerPage::setFilePath
SetFilePath(V) ==
    [V EXCEPT !.fileLoaded = FALSE, !.currentScrollLine = 0, !.bookmarks = {}]

\* TextViewerPage::cleanup
Cleanup(V) ==
    [V EXCEPT !.fileLoaded = FALSE, !.currentScrollLine = 0, !.totalLines = 0,
              !.bookmarks = {}]

\* TextViewerPage::calculateLayout
CalculateLayout(V, lineHeight) ==
    [V EXCEPT !.linesPerPage = Max(1, ContentHeight \div lineHeight)]

\* TextViewerPage::calculateFileMetadata: the file has n wrapped lines and
\* bookmark markers on the lines of detected
CalculateFileMetadata(V, n, detected) ==
    [V EXCEPT !.currentScrollLine = 0, !.totalLines = n, !.fileLoaded = TRUE,
              !.detectedBookmarks = detected]

\* TextViewerPage::loadMetadataFromCache on a document that passes the
\* checks of lines 1148-1167
LoadMetadataFromCache(V, doc) ==
    Then([V EXCEPT !.totalLines = doc.totalLines], LAMBDA V1 :
         [V1 EXCEPT !.currentScrollLine = ClampScroll(V1, doc.lastScrollLine),
                    !.bookmarks = doc.bookmarks,
                    !.detectedBookmarks = doc.detectedBookmarks,
                    !.fileLoaded = TRUE])

\* TextViewerPage::handleScroll: a tap above or below the middle of the
\* content area
HandleScroll(V, up) ==
    LET scrollAmount == Max(1, V.linesPerPage \div 2)
    IN  [V EXCEPT !.currentScrollLine =
                      ClampScroll(V, IF up THEN @ - scrollAmount ELSE @ + scrollAmount)]

\* the scrollbar branch of handleTouch: relativeY is the distance of the tap
\* from the top of the bar; err is the rounding of the float product, which
\* is within one line of the exact quotient
ScrollbarTouch(V, relativeY, err) ==
    LET range == V.totalLines - V.linesPerPage
        targetLine == (relativeY * range) \div ContentHeight + err
    IN  [V EXCEPT !.currentScrollLine = Min(Max(0, targetLine), range)]

\* the bookmarks a jump searches: manual and detected ones
AllBookmarks(V) == V.bookmarks \cup V.detectedBookmarks

\* TextViewerPage::goToPrevBookmark
GoToPrevBookmark(V) ==
    LET before == {b \in AllBookmarks(V) : b < V.currentScrollLine}
    IN  IF ~V.fileLoaded \/ before = {} THEN V
        ELSE [V EXCEPT !.currentScrollLine =
                 ClampScroll(V, CHOOSE b \in before : \A c \in before : c <= b)]

\* TextViewerPage::goToNextBookmark
GoToNextBookmark(V) ==
    LET after == {b \in AllBookmarks(V) : b > V.currentScrollLine}
    IN  IF ~V.fileLoaded \/ after = {} THEN V
        ELSE [V EXCEPT !.currentScrollLine =
                 ClampScroll(V, CHOOSE b \in after : \A c \in after : b <= c)]

\* TextViewerPage::toggleBookmark
ToggleBookmark(V) ==
    IF ~V.fileLoaded \/ V.totalLines <= 0 THEN V
    ELSE IF V.currentScrollLine \in V.bookmarks
         THEN [V EXCEPT !.bookmarks = @ \ {V.currentScrollLine}]
         ELSE [V EXCEPT !.bookmarks = @ \cup {V.currentScrollLine}]

\* TextViewerPage::handleTouch, by the region of the tap
HandleTouch(V, region, arg) ==
    IF region = "top" THEN [V EXCEPT !.currentScrollLine = 0]
    ELSE IF region = "prevBookmark" THEN GoToPrevBookmark(V)
    ELSE IF region = "bookmark" THEN ToggleBookmark(V)
    ELSE IF region = "nextBookmark" THEN GoToNextBookmark(V)
    ELSE IF ~(V.fileLoaded /\ V.totalLines > V.linesPerPage) THEN V
    ELSE IF region = "scrollbar" THEN ScrollbarTouch(V, arg[1], arg[2])
    ELSE HandleScroll(V, arg[1] = 0)

\* cache documents found beside a text file: totalLines and lastScrollLine
\* of any value, bookmarks on any line
CacheDocs ==
    [totalLines : {-1, MaxLines}, lastScrollLine : {-3, 1, MaxLines + 5},
     bookmarks : {{}, {-2, 1, MaxLines + 3}}, detectedBookmarks : {{2}}]

\* the regions of the screen and what a tap in them carries
Touches ==
    ({"top", "prevBookmark", "bookmark", "nextBookmark"} \X {<<0, 0>>})
    \cup ({"scrollbar"} \X ({0, ContentHeight \div 2, ContentHeight - 1} \X {-1, 0, 1}))
    \cup ({"content"} \X {<<0, 0>>, <<1, 0>>})

\* a call of the text viewer leaves the rest alone
ViewerCommit(V, op, arg) ==
    /\ textViewer' = V
    /\ last' = Obs(op, NoKey, 0, 0, FALSE, TRUE, [Tr0 EXCEPT !.before = arg])
    /\ UnchangedFont
    /\ UNCHANGED <<router, sdCard>>

SetFilePathCall == ViewerCommit(SetFilePath(textViewer), "setFilePath", <<>>)

CleanupCall == ViewerCommit(Cleanup(textViewer), "cleanup", <<>>)

\* TextViewerPage::display of a page whose metadata is not loaded: the
\* layout, then the metadata from the cache document
DisplayFromCache ==
    /\ ~textViewer.fileLoaded
    /\ \E lineHeight \in LineHeights, doc \in CacheDocs :
           \E V \in {CalculateLayout(textViewer, lineHeight)} :
               ViewerCommit(LoadMetadataFromCache(V, doc), "loadMetadataFromCache", doc)

\* the same with no usable cache: the metadata is calculated from the file
DisplayCalculated ==
    /\ ~textViewer.fileLoaded
    /\ \E lineHeight \in LineHeights, n \in 0..MaxLines :
           \E detected \in {{}, {0, n}} :
               \E V \in {CalculateLayout(textViewer, lineHeight)} :
                   ViewerCommit(CalculateFileMetadata(V, n, detected),
                                "calculateFileMetadata", <<n>>)

HandleTouchCall ==
    \E t \in Touches :
        ViewerCommit(HandleTouch(textViewer, t[1], t[2]), t[1], <<>>)

NextViewer ==
    \/ SetFilePathCall
    \/ CleanupCall
    \/ DisplayFromCache
    \/ DisplayCalculated
    \/ HandleTouchCall

SpecViewer == InitLRU /\ [][NextViewer]_vars

\* C37: once the metadata of the text viewer is loaded, after any sequence
\* of taps and after the restoring of a cached scroll line of any value, the
\* scroll line is at least 0 and at most max(0, totalLines - linesPerPage).
C37_ScrollLineInRange ==
    textViewer.fileLoaded
        => /\ 0 <= textViewer.currentScrollLine
           /\ textViewer.currentScrollLine
                  <= Max(0, textViewer.totalLines - textViewer.linesPerPage)

\* a cached scroll line beyond the last page was restored to the last page
C37_Witness ==
    /\ last.op = "loadMetadataFromCache"
    /\ last.tr.before.lastScrollLine > textViewer.totalLines
    /\ textViewer.fileLoaded
    /\ textViewer.currentScrollLine = textViewer.totalLines - textViewer.linesPerPage
    /\ textViewer.currentScrollLine > 0

\* a jump to a bookmark beyond the last page stopped at the last page
C37_WitnessBookmark ==
    /\ last.op = "nextBookmark"
    /\ \E b \in AllBookmarks(textViewer) : b > textViewer.totalLines
    /\ textViewer.currentScrollLine = textViewer.totalLines - textViewer.linesPerPage
    /\ textViewer.currentScrollLine > 0

-----------------------------------------------------------------------------
\* The length of the scratch buffer for every size a page can draw.

\* the sizes Display::drawCharacter requests, 16 pixels times its 8-bit
\* multiplier, and the two sizes on either side of the 16-bit limit
ColdSizes == {16 * m : m \in 1..255} \cup {724, 725}

\* lines 483 and 567 of Font::loadCharacter on a size: nothing else of the
\* cold reader depends on more than the length they store
BufferSizeCall ==
    \E size \in ColdSizes :
        /\ last' = Obs("bufferSize", <<"", size>>, 0, BufLen(size), FALSE, TRUE, Tr0)
        /\ UnchangedFont
        /\ UNCHANGED <<router, sdCard, textViewer>>

NextBuffer == BufferSizeCall

SpecBuffer == InitLRU /\ [][NextBuffer]_vars

\* C38: for every pixel size passed to the cold reader the length stored in
\* bufferSize is (pixelSize * pixelSize + 7) / 8, not that value modulo 2^16.
C38_BufferSizeNotTruncated ==
    last.op = "bufferSize" => last.ret = PackedLen(last.key[2])

\* the same for the sizes of at most 724 pixels
C38_ExactUpTo724 ==
    (last.op = "bufferSize" /\ last.key[2] <= 724)
        => last.ret = PackedLen(last.key[2])

\* a size a page can draw whose buffer length was stored modulo 2^16
C38_TruncatedLength ==
    /\ last.op = "bufferSize"
    /\ last.key[2] = 16 * 46
    /\ last.ret = PackedLen(last.key[2]) - UINT16_MOD

====
